---- MODULE Spec2Model ----
(***************************************************************************)
(* Vespasian discovery engine: the probe contract, the orchestrator       *)
(* (Orchestrator.Discover), the shipped probes' Run methods as far as     *)
(* their results and errors go, and DedupeEndpoints.                      *)
(*                                                                         *)
(* Go strings are sequences of one-character strings, so that            *)
(* concatenation and strings.ToLower are computed, not assumed.           *)
(* A Go slice is a record [isNil, elems]: a nil slice and an empty        *)
(* non-nil slice are different values with the same length.               *)
(* A Go error is a string naming it; Nil is the nil error.                *)
(***************************************************************************)
EXTENDS Integers, Sequences, FiniteSets, TLC

\* ------------------------------------------------------------------ bounds

\* Longest probe list handed to NewOrchestrator.
MaxProbes == 2

\* Longest result list handed to DedupeEndpoints.
MaxResults == 2

\* Most endpoints, over all its results, of a list handed to DedupeEndpoints.
MaxEndpoints == 3

\* ------------------------------------------------------------ Go values

Nil == "nil"

NilSlice == [isNil |-> TRUE, elems |-> <<>>]

Slice(s) == [isNil |-> FALSE, elems |-> s]

\* len(slice)
SliceLen(sl) == Len(sl.elems)

\* probes.CategoryHTTP, probes.CategoryProtocol
CategoryHTTP == "http"

CategoryProtocol == "protocol"

\* probes.ErrProbeTimeout
ErrProbeTimeout == "probe timeout"

\* context.Canceled, the value of ctx.Err() once the caller has cancelled
ErrCanceled == "context canceled"

\* probes.APIEndpoint
APIEndpoint(path, method) == [Path |-> path, Method |-> method]

\* probes.ProbeResult
ProbeResult(cat, ok, eps, err) ==
    [ProbeCategory |-> cat, Success |-> ok, Endpoints |-> eps, Error |-> err]

\* The zero value of probes.ProbeResult, what make([]ProbeResult, n) holds.
ZeroResult == ProbeResult("", FALSE, NilSlice, Nil)

\* ------------------------------------------------------------- strings

\* strings.ToLower on one character of the model's alphabet.
LowerChar(c) ==
    CASE c = "A" -> "a"
      [] c = "B" -> "b"
      [] c = "U" -> "u"
      [] OTHER -> c

\* strings.ToLower
ToLower(s) == [i \in 1..Len(s) |-> LowerChar(s[i])]

\* ------------------------------------------------------ DedupeEndpoints

\* Mutant of endpointKey: the path is not lowercased.
endpointKeyNoLower(endpoint) == endpoint.Method \o <<":">> \o endpoint.Path

\* endpointKey: endpoint.Method + ":" + strings.ToLower(endpoint.Path)
endpointKey(endpoint) == endpoint.Method \o <<":">> \o ToLower(endpoint.Path)

\* Mutant of DedupeInner: removal while iterating that steps over the element
\* following a removed one, which is kept unexamined.
RECURSIVE DedupeInnerSkipAfterRemove(_, _, _, _)
DedupeInnerSkipAfterRemove(eps, j, unique, seen) ==
    IF j > Len(eps) THEN [unique |-> unique, seen |-> seen]
    ELSE LET key == endpointKey(eps[j])
         IN IF key \notin seen
            THEN DedupeInnerSkipAfterRemove(eps, j + 1, Append(unique, eps[j]),
                                            seen \cup {key})
            ELSE IF j + 1 <= Len(eps)
                 THEN DedupeInnerSkipAfterRemove(eps, j + 2,
                                                 Append(unique, eps[j + 1]), seen)
                 ELSE [unique |-> unique, seen |-> seen]

\* Mutant of DedupeInner: a kept key is not recorded in seen.
RECURSIVE DedupeInnerNoMark(_, _, _, _)
DedupeInnerNoMark(eps, j, unique, seen) ==
    IF j > Len(eps) THEN [unique |-> unique, seen |-> seen]
    ELSE LET key == endpointKey(eps[j])
         IN IF key \notin seen
            THEN DedupeInnerNoMark(eps, j + 1, Append(unique, eps[j]), seen)
            ELSE DedupeInnerNoMark(eps, j + 1, unique, seen)

\* The inner loop of DedupeEndpoints over one result's endpoints, from index
\* j on: [unique, seen] after the loop, given uniqueEndpoints and seen so far.
RECURSIVE DedupeInner(_, _, _, _)
DedupeInner(eps, j, unique, seen) ==
    IF j > Len(eps) THEN [unique |-> unique, seen |-> seen]
    ELSE LET key == endpointKey(eps[j])
         IN IF key \notin seen
            THEN DedupeInner(eps, j + 1, Append(unique, eps[j]), seen \cup {key})
            ELSE DedupeInner(eps, j + 1, unique, seen)

\* Mutant of DedupeOuter: a seen set made afresh for every result.
RECURSIVE DedupeOuterPerResult(_, _, _, _)
DedupeOuterPerResult(results, i, deduped, seen) ==
    IF i > Len(results) THEN deduped
    ELSE LET result == results[i]
         IN IF ~result.Success \/ SliceLen(result.Endpoints) = 0
            THEN DedupeOuterPerResult(results, i + 1, Append(deduped, result), {})
            ELSE LET r == DedupeInner(result.Endpoints.elems, 1, <<>>, {})
                 IN DedupeOuterPerResult(results, i + 1,
                        Append(deduped,
                               ProbeResult(result.ProbeCategory, result.Success,
                                           Slice(r.unique), result.Error)),
                        {})

\* Mutant of DedupeOuter: no result is passed through; the endpoint list of
\* every result is rebuilt by the inner loop.
RECURSIVE DedupeOuterRebuildsAll(_, _, _, _)
DedupeOuterRebuildsAll(results, i, deduped, seen) ==
    IF i > Len(results) THEN deduped
    ELSE LET result == results[i]
             r == DedupeInner(result.Endpoints.elems, 1, <<>>, seen)
         IN DedupeOuterRebuildsAll(results, i + 1,
                Append(deduped,
                       ProbeResult(result.ProbeCategory, result.Success,
                                   Slice(r.unique), result.Error)),
                r.seen)

\* The outer loop of DedupeEndpoints from result i on, given deduped and seen.
RECURSIVE DedupeOuter(_, _, _, _)
DedupeOuter(results, i, deduped, seen) ==
    IF i > Len(results) THEN deduped
    ELSE LET result == results[i]
         IN IF ~result.Success \/ SliceLen(result.Endpoints) = 0
            THEN DedupeOuter(results, i + 1,
                     Append(deduped,
                            ProbeResult(result.ProbeCategory, result.Success,
                                        result.Endpoints, result.Error)),
                     seen)
            ELSE LET r == DedupeInner(result.Endpoints.elems, 1, <<>>, seen)
                 IN DedupeOuter(results, i + 1,
                        Append(deduped,
                               ProbeResult(result.ProbeCategory, result.Success,
                                           Slice(r.unique), result.Error)),
                        r.seen)

\* Mutant of DedupeEndpoints: failed results are left out of the copy.
DedupeEndpointsDropsFailed(results) ==
    IF Len(results) = 0 THEN results
    ELSE DedupeOuter(SelectSeq(results, LAMBDA r : r.Success), 1, <<>>, {})

\* DedupeEndpoints(results): the deduplicated copy it returns.
DedupeEndpoints(results) ==
    IF Len(results) = 0 THEN results
    ELSE DedupeOuter(results, 1, <<>>, {})

\* ------------------------------------------------------------ strings used

GET == <<"G", "E", "T">>

POST == <<"P", "O", "S", "T">>

UPGRADE == <<"U", "P", "G", "R", "A", "D", "E">>

PathU == <<"/", "u">>

PathUpperU == <<"/", "U">>

PathApi == <<"/", "a", "p", "i">>

PathShouldNotAppear == <<"/", "x">>

PathWs == <<"/", "w", "s">>

PathQueryU == <<"q", ".", "u">>

PathWsdlOp == <<"?", "w", "/", "o">>

\* ------------------------------------------------------ the probe contract

\* The value a call of Probe.Run ends with: it returns (result, err), where the
\* *ProbeResult may be nil, or it panics.
Ret(result, err) == [kind |-> "ret", nilResult |-> FALSE, result |-> result, err |-> err]

RetNilResult(err) == [kind |-> "ret", nilResult |-> TRUE, result |-> ZeroResult, err |-> err]

Panic == [kind |-> "panic", nilResult |-> TRUE, result |-> ZeroResult, err |-> Nil]

NoOutcome == [kind |-> "none", nilResult |-> TRUE, result |-> ZeroResult, err |-> Nil]

\* The failed result every shipped probe builds beside an error it returns.
FailedWith(cat, err) == Ret(ProbeResult(cat, FALSE, NilSlice, err), err)

\* mockProbe of orchestrator_test.go
mockProbe(name, category, priority, accepts, endpoints, err) ==
    [kind |-> "mock", name |-> name, category |-> category, priority |-> priority,
     accepts |-> accepts, endpoints |-> endpoints, err |-> err]

\* The shipped probes: NewCrawlerProbe, NewGRPCProbe, NewWebSocketProbe,
\* NewOpenAPIProbe, NewWSDLProbe, NewGraphQLProbe.
CrawlerProbe == [kind |-> "crawler"]

GRPCProbe == [kind |-> "grpc"]

WebSocketProbe == [kind |-> "websocket"]

OpenAPIProbe == [kind |-> "openapi"]

WSDLProbe == [kind |-> "wsdl"]

GraphQLProbe == [kind |-> "graphql"]

\* The mock probes of TestOrchestrator_Discover_HandlesErrors and
\* TestOrchestrator_Discover_SkipsNonAcceptingProbes.
MockFailing ==
    mockProbe("failing", CategoryHTTP, 100, TRUE, NilSlice, ErrProbeTimeout)

MockSucceeding ==
    mockProbe("succeeding", CategoryHTTP, 50, TRUE,
              Slice(<<APIEndpoint(PathApi, GET)>>), Nil)

MockRejects ==
    mockProbe("rejects", CategoryHTTP, 50, FALSE,
              Slice(<<APIEndpoint(PathShouldNotAppear, GET)>>), Nil)

\* A probe none of the packages ships but the Probe interface admits: it
\* accepts every target and its Run returns (nil, nil).
NilResultProbe == [kind |-> "nilresult"]

\* Probe.Name
Name(p) == IF p.kind = "mock" THEN p.name ELSE p.kind

\* Probe.Category
Category(p) ==
    CASE p.kind = "mock" -> p.category
      [] p.kind \in {"crawler", "openapi", "wsdl", "graphql"} -> CategoryHTTP
      [] p.kind \in {"grpc", "websocket", "nilresult"} -> CategoryProtocol

\* Probe.Priority
Priority(p) ==
    CASE p.kind = "mock" -> p.priority
      [] p.kind = "crawler" -> 100
      [] p.kind = "grpc" -> 60
      [] p.kind = "websocket" -> 55
      [] p.kind = "openapi" -> 50
      [] p.kind = "wsdl" -> 50
      [] p.kind = "graphql" -> 45
      [] p.kind = "nilresult" -> 50

\* Probe.Accepts
Accepts(p, target) ==
    CASE p.kind = "mock" -> p.accepts
      [] p.kind = "crawler" -> target.Port \in {80, 443, 8080, 8443}
      [] p.kind = "grpc" -> target.Port \in {9090, 50051, 8080, 8443, 443}
      [] p.kind = "websocket" -> target.Port \in {80, 443, 8080, 8443, 3000, 5000}
      [] p.kind = "openapi" -> target.Port \in {80, 443, 8080, 8443, 3000, 5000}
      [] p.kind = "wsdl" -> target.Port \in {80, 443, 8080, 8443, 3000, 5000}
      [] p.kind = "graphql" -> target.Port \in {80, 443, 8080, 8443, 3000, 4000, 5000}
      [] p.kind = "nilresult" -> TRUE

\* ------------------------------------------------------------ Probe.Run
\* What a call of Run can end with. The target's behaviour (which requests
\* fail, what the pages hold) is the environment's choice, so each Run is the
\* set of the outcomes its code can produce.

\* probes.ErrConnectionRefused, standing for any error of a network call
ErrConnectionRefused == "connection refused"

ErrNoOpenAPI == "no OpenAPI specs found"

ErrNoGraphQL == "no GraphQL endpoints found"

ErrNoWSDL == "no WSDL found"

\* The crawler factory's defaults.
DefaultMaxDepth == 3

DefaultMaxPages == 100

\* mockProbe.Run
MockRun(m) ==
    IF m.err # Nil
    THEN {FailedWith(m.category, m.err)}
    ELSE {Ret(ProbeResult(m.category, TRUE, m.endpoints, Nil), Nil)}

\* GRPCProbe.Run: a stub that reports Success=false with no error.
GRPCRun == {Ret(ProbeResult(CategoryProtocol, FALSE, Slice(<<>>), Nil), Nil)}

\* WebSocketProbe.Run: buildBaseURL never fails; detectedEndpoints stays nil
\* unless a handshake on one of commonPaths succeeds; ctx is not consulted.
WebSocketRun ==
    {Ret(ProbeResult(CategoryProtocol, FALSE, NilSlice, Nil), Nil),
     Ret(ProbeResult(CategoryProtocol, TRUE,
                     Slice(<<APIEndpoint(PathWs, UPGRADE)>>), Nil), Nil)}

\* OpenAPIProbe.Run: no spec found (a failed result, nil error); a failed
\* request, read or parse (the error, mirrored); make([]byte, ContentLength)
\* with ContentLength -1, a chunked response (a panic); the parsed endpoints.
\* ctx is not consulted.
OpenAPIRun ==
    {Ret(ProbeResult(CategoryHTTP, FALSE, NilSlice, ErrNoOpenAPI), Nil),
     FailedWith(CategoryHTTP, ErrConnectionRefused),
     Panic,
     Ret(ProbeResult(CategoryHTTP, TRUE, Slice(<<APIEndpoint(PathU, GET)>>), Nil), Nil)}

\* GraphQLProbe.Run; ctx is not consulted.
GraphQLRun ==
    {Ret(ProbeResult(CategoryHTTP, FALSE, NilSlice, ErrNoGraphQL), Nil),
     FailedWith(CategoryHTTP, ErrConnectionRefused),
     Ret(ProbeResult(CategoryHTTP, TRUE,
                     Slice(<<APIEndpoint(PathQueryU, POST)>>), Nil), Nil)}

\* WSDLProbe.Run; ctx is not consulted.
WSDLRun ==
    {Ret(ProbeResult(CategoryHTTP, FALSE, NilSlice, ErrNoWSDL), Nil),
     FailedWith(CategoryHTTP, ErrConnectionRefused),
     Ret(ProbeResult(CategoryHTTP, TRUE,
                     Slice(<<APIEndpoint(PathWsdlOp, POST)>>), Nil), Nil)}

\* CrawlerProbe.Run over Crawler.Crawl. Crawl returns ctx.Err() only from the
\* check at the top of an iteration that fetches; a fetch that fails, also by
\* cancellation, is skipped, and a loop that runs out of queue returns nil.
\* ctxAtCall: ctx was cancelled when Run was called; ctxNow: when it returns.
CrawlerRun(ctxAtCall, ctxNow) ==
    LET fetched == {Ret(ProbeResult(CategoryHTTP, TRUE, Slice(<<>>), Nil), Nil),
                    Ret(ProbeResult(CategoryHTTP, TRUE,
                                    Slice(<<APIEndpoint(PathU, GET)>>), Nil), Nil)}
        cancelled == {FailedWith(CategoryHTTP, ErrCanceled)}
    IN IF ctxAtCall /\ DefaultMaxDepth > 0 /\ DefaultMaxPages > 0 THEN cancelled
       ELSE IF ctxNow THEN cancelled \cup fetched
       ELSE fetched

\* p.Run(ctx, target, opts), by the probe's dynamic type.
Run(p, ctxAtCall, ctxNow) ==
    CASE p.kind = "mock" -> MockRun(p)
      [] p.kind = "crawler" -> CrawlerRun(ctxAtCall, ctxNow)
      [] p.kind = "grpc" -> GRPCRun
      [] p.kind = "websocket" -> WebSocketRun
      [] p.kind = "openapi" -> OpenAPIRun
      [] p.kind = "wsdl" -> WSDLRun
      [] p.kind = "graphql" -> GraphQLRun
      [] p.kind = "nilresult" -> {RetNilResult(Nil)}

\* ---------------------------------------------------------------- state

VARIABLES
    probes,      \* Orchestrator.probes, the list given to NewOrchestrator
    target,      \* the probes.Target of the Discover call
    ctxDone,     \* ctx.Err() != nil: the caller has cancelled ctx
    dpc,         \* where Discover is: "idle", "dispatch", "returned"
    accepting,   \* acceptingProbes
    results,     \* the results slice Discover makes and returns
    written,     \* per slot of results, how often it has been assigned
    writer,      \* per slot of results, the index of the unit that assigned it last
    unit,        \* per index, the goroutine Discover starts for it
    spawned,     \* how many goroutines the dispatch loop has started
    wg,          \* the sync.WaitGroup counter
    crashed,     \* the runtime has ended the process on an unrecovered panic
    runCalls,    \* the probes whose Run has been called
    lastStored,  \* the index of the unit that assigned its slot last (0: none)
    ret,         \* what Discover returned: [returned, results, err]
    dInput,      \* the result list a caller hands to DedupeEndpoints
    dPhase,      \* "build", "deduped", "twice" ("off" outside SpecDedupe)
    dOutput,     \* DedupeEndpoints(dInput)
    dTwice,      \* DedupeEndpoints(dOutput)
    findings,    \* what ToFindings returned for dOutput
    factories,   \* Registry.factories: name -> factory
    regLog,      \* the Register calls made so far, in order: <<name, factory>>
    lastCall,    \* the last call on the registry and what it returned
    rw,          \* the registry's RWMutex and the goroutines calling the registry
    get,         \* a call of Client.Get: its loop variables and what it returned
    crawl,       \* a call of Crawler.Crawl: the site, its loop variables, what it returned
    calls,       \* Discover calls running at once on one Orchestrator, and the slices they made
    crawlers     \* goroutines using one Crawler at once, its mutex and their accesses to visited

varsDiscover ==
    <<probes, target, ctxDone, dpc, accepting, results, written, writer, unit,
      spawned, wg, crashed, runCalls, lastStored, ret>>

varsDedupe == <<dInput, dPhase, dOutput, dTwice>>

varsPipeline == <<findings>>

varsRegistry == <<factories, regLog, lastCall>>

varsLocks == <<rw>>

varsFetch == <<get, crawl>>

varsShared == <<calls, crawlers>>

vars ==
    <<varsDiscover, varsDedupe, varsPipeline, varsRegistry, varsLocks, varsFetch,
      varsShared>>

\* ------------------------------------------------------------- inputs

\* Every probe a list may hold, in a fixed order.
AllProbes ==
    <<CrawlerProbe, GRPCProbe, WebSocketProbe, OpenAPIProbe, WSDLProbe,
      GraphQLProbe, MockFailing, MockSucceeding, MockRejects>>

RECURSIVE AscendingSeq(_)
AscendingSeq(S) ==
    IF S = {} THEN <<>>
    ELSE LET m == CHOOSE x \in S : \A y \in S : x <= y
         IN <<AllProbes[m]>> \o AscendingSeq(S \ {m})

Reverse(s) == [i \in 1..Len(s) |-> s[Len(s) + 1 - i]]

\* The probe lists a caller builds: up to MaxProbes distinct probes, in the
\* order of AllProbes or in the opposite order.
ProbeLists ==
    LET picks == {S \in SUBSET (1..Len(AllProbes)) : Cardinality(S) <= MaxProbes}
    IN {AscendingSeq(S) : S \in picks} \cup {Reverse(AscendingSeq(S)) : S \in picks}

\* The targets scanned: a port every shipped probe accepts, one only the spec
\* and WebSocket probes accept, one only gRPC accepts.
Targets == {[Host |-> "test-server", Port |-> port] : port \in {443, 3000, 9090}}

\* --------------------------------------------------- Orchestrator.Discover

\* The permutations of a sequence.
PermsOf(ps) ==
    LET n == Len(ps)
        bij == {f \in [1..n -> 1..n] : \A i, j \in 1..n : f[i] = f[j] => i = j}
    IN {[i \in 1..n |-> ps[f[i]]] : f \in bij}

IsSortedByPriority(s) ==
    \A i \in 1..(Len(s) - 1) : Priority(s[i]) >= Priority(s[i + 1])

\* Mutant of sortProbesByPriority: the copy is sorted by ascending Priority.
sortProbesByPriorityAscending(ps) ==
    {s \in PermsOf(ps) :
        \A i \in 1..(Len(s) - 1) : Priority(s[i]) <= Priority(s[i + 1])}

\* sortProbesByPriority: sort.Slice of a copy by Priority, descending.
\* sort.Slice is not stable, so the order among equal priorities is any.
sortProbesByPriority(ps) == {s \in PermsOf(ps) : IsSortedByPriority(s)}

\* Mutant of FilterAccepting: the Accepts test is dropped.
FilterAcceptingAll(sorted, tgt) == sorted

\* The filter loop of Discover: the probes of sorted that accept the target.
FilterAccepting(sorted, tgt) == SelectSeq(sorted, LAMBDA p : Accepts(p, tgt))

\* Mutant of MakeResults: one slot too many.
MakeResultsOneMore(n) == [i \in 1..(n + 1) |-> ZeroResult]

\* make([]probes.ProbeResult, n)
MakeResults(n) == [i \in 1..n |-> ZeroResult]

\* Mutant of StoreResult: the synthesized result leaves Error unset.
StoreResultNoError(p, out) ==
    IF out.err # Nil
    THEN ProbeResult(Category(p), FALSE, NilSlice, Nil)
    ELSE out.result

\* Mutant of StoreResult: on a nil error the slot is rebuilt from the result's
\* Success and Endpoints instead of being copied from *result.
StoreResultRebuilt(p, out) ==
    IF out.err # Nil
    THEN ProbeResult(Category(p), FALSE, NilSlice, out.err)
    ELSE ProbeResult(Category(p), out.result.Success, out.result.Endpoints, Nil)

\* What the goroutine assigns to its slot once Run has returned.
StoreResult(p, out) ==
    IF out.err # Nil
    THEN ProbeResult(Category(p), FALSE, NilSlice, out.err)
    ELSE out.result

\* Mutant of WriteIndex: results are appended as each unit finishes.
WriteIndexAppend(idx, wr) ==
    CHOOSE k \in 1..Len(wr) : wr[k] = 0 /\ \A j \in 1..(k - 1) : wr[j] > 0

\* The slot goroutine idx assigns: results[idx].
WriteIndex(idx, wr) == idx

\* wg.Wait() returns once the counter is zero.
WaitReturns(counter) == counter = 0

\* Whether the goroutine panics after Run: Run panicked, or it returned a nil
\* result with a nil error and *result dereferences nil.
UnitPanics(out) == out.kind = "panic" \/ (out.err = Nil /\ out.nilResult)

NotReturned == [returned |-> FALSE, results |-> <<>>, err |-> Nil]

InitDiscoverIdle ==
    /\ ctxDone = FALSE
    /\ accepting = <<>>
    /\ results = <<>>
    /\ written = <<>>
    /\ writer = <<>>
    /\ unit = <<>>
    /\ spawned = 0
    /\ wg = 0
    /\ crashed = FALSE
    /\ runCalls = {}
    /\ lastStored = 0
    /\ ret = NotReturned

\* ----------------------------------------------------------- ToFindings

\* capability.FindingAsset, capability.FindingAttribute, capability.SeverityInfo
FindingAsset == "asset"

FindingAttribute == "attribute"

SeverityInfo == "info"

\* ProbeCategory.String()
CategoryString(c) == c

\* Mutant of AssetFinding: an endpoint is reported with the type of an error
\* finding.
AssetFindingAsAttribute(endpoint, category) ==
    [Type |-> FindingAttribute, Severity |-> SeverityInfo,
     Data |-> [type |-> "api_endpoint", method |-> endpoint.Method,
               path |-> endpoint.Path, probe_category |-> CategoryString(category)]]

\* The finding ToFindings makes of an endpoint of a successful result.
AssetFinding(endpoint, category) ==
    [Type |-> FindingAsset, Severity |-> SeverityInfo,
     Data |-> [type |-> "api_endpoint", method |-> endpoint.Method,
               path |-> endpoint.Path, probe_category |-> CategoryString(category)]]

\* The finding ToFindings makes of a failed result that carries an error.
ErrorFinding(category, err) ==
    [Type |-> FindingAttribute, Severity |-> SeverityInfo,
     Data |-> [type |-> "probe_error", probe_category |-> CategoryString(category),
               error |-> err]]

\* Mutant of ToFindingsFrom: the conversion ends at the first failed result.
RECURSIVE ToFindingsStopAtFailure(_, _, _)
ToFindingsStopAtFailure(rs, i, found) ==
    IF i > Len(rs) \/ ~rs[i].Success THEN found
    ELSE ToFindingsStopAtFailure(rs, i + 1,
             found \o [j \in 1..SliceLen(rs[i].Endpoints) |->
                          AssetFinding(rs[i].Endpoints.elems[j], rs[i].ProbeCategory)])

\* The loop of ToFindings from result i on, given the findings so far.
RECURSIVE ToFindingsFrom(_, _, _)
ToFindingsFrom(rs, i, found) ==
    IF i > Len(rs) THEN found
    ELSE LET result == rs[i]
             assets == IF result.Success
                       THEN [j \in 1..SliceLen(result.Endpoints) |->
                               AssetFinding(result.Endpoints.elems[j], result.ProbeCategory)]
                       ELSE <<>>
             errors == IF ~result.Success /\ result.Error # Nil
                       THEN <<ErrorFinding(result.ProbeCategory, result.Error)>>
                       ELSE <<>>
         IN ToFindingsFrom(rs, i + 1, found \o assets \o errors)

\* ToFindings(results): var findings starts nil and is appended to.
ToFindings(rs) ==
    LET found == ToFindingsFrom(rs, 1, <<>>)
    IN IF found = <<>> THEN NilSlice ELSE Slice(found)

InitPipelineOff == findings = NilSlice

\* ----------------------------------------------------------- Client.Get

\* The largest ClientConfig.MaxRetries a client is made with.
MaxRetriesBound == 3

\* An error of Client.Get: fmt.Errorf(prefix + ": %w", cause); the nil error
\* has no prefix and the cause Nil.
GetError(prefix, cause) == [prefix |-> prefix, cause |-> cause]

\* A *Response: nil, or one with the StatusCode received.
GetResponse(isNil, status) == [isNil |-> isNil, StatusCode |-> status]

\* What one attempt meets once its request is sent: httpClient.Do fails, or
\* it returns a response with a status whose body is read whole or not.
GetEvents ==
    {[do |-> "error", status |-> 0, read |-> FALSE]} \cup
    {[do |-> "response", status |-> st, read |-> rd] :
        st \in {200, 404, 500, 503}, rd \in BOOLEAN}

\* A call of Get on a client made with maxRetries, before its loop: no
\* request sent, lastErr nil. trace lists what each iteration met.
NewGet(maxRetries, badURL) ==
    [pc |-> "loop", maxRetries |-> maxRetries, badURL |-> badURL, attempt |-> 0,
     lastErr |-> GetError("", Nil), sent |-> 0, trace |-> <<>>,
     resp |-> GetResponse(TRUE, 0), err |-> GetError("", Nil)]

\* No call of Get.
NoGet == [NewGet(0, FALSE) EXCEPT !.pc = "off"]

\* Mutant of MoreAttempts: the loop runs once more.
MoreAttemptsInclusive(attempt, maxRetries) == attempt <= maxRetries

\* The loop condition of Get: attempt < c.maxRetries.
MoreAttempts(attempt, maxRetries) == attempt < maxRetries

\* Mutant of ContextDone: the context is not looked at.
ContextIgnored(cancelled) == FALSE

\* ctx.Err() != nil, read at the top of each iteration.
ContextDone(cancelled) == cancelled

\* One pass of Get from the loop condition on, for a call in state g whose
\* ctx is cancelled or not and whose request, if sent, meets ev: the call
\* returns, or goes on to the next attempt.
GetStep(g, ev, cancelled) ==
    LET return(resp, err, sent, met) ==
            [g EXCEPT !.pc = "returned", !.resp = resp, !.err = err,
                      !.sent = g.sent + sent, !.trace = Append(g.trace, met)]
        continue(lastErr, met) ==
            [g EXCEPT !.attempt = g.attempt + 1, !.lastErr = lastErr,
                      !.sent = g.sent + 1, !.trace = Append(g.trace, met)]
        skipped(kind) == [do |-> kind, status |-> 0, read |-> FALSE]
        isLast == ~(g.attempt < g.maxRetries - 1)
    IN IF ~MoreAttempts(g.attempt, g.maxRetries)
       THEN [g EXCEPT !.pc = "returned", !.resp = GetResponse(TRUE, 0), !.err = g.lastErr]
       ELSE IF ContextDone(cancelled)
       THEN return(GetResponse(TRUE, 0), GetError("context canceled", ErrCanceled),
                   0, skipped("canceled"))
       ELSE IF g.badURL
       THEN return(GetResponse(TRUE, 0), GetError("create request", "invalid URL"),
                   0, skipped("no request"))
       ELSE IF ev.do = "error"
       THEN IF isLast
            THEN return(GetResponse(TRUE, 0),
                        GetError("request failed after attempts", ErrConnectionRefused),
                        1, ev)
            ELSE continue(GetError("", ErrConnectionRefused), ev)
       ELSE IF ~ev.read
       THEN return(GetResponse(TRUE, 0), GetError("read response body", "unexpected EOF"),
                   1, ev)
       ELSE IF ev.status >= 500 /\ ~isLast
       THEN continue(GetError("server error", "5xx"), ev)
       ELSE return(GetResponse(FALSE, ev.status), GetError("", Nil), 1, ev)

\* Get from state g to its return, the requests meeting the events of evs
\* one after the other and the context being cancelled from iteration
\* cancelAt on (never, if cancelAt is 0).
RECURSIVE GetRun(_, _, _)
GetRun(g, evs, cancelAt) ==
    IF g.pc = "returned" \/ evs = <<>> THEN g
    ELSE GetRun(GetStep(g, Head(evs), cancelAt # 0 /\ Len(g.trace) + 1 >= cancelAt),
                Tail(evs), cancelAt)

\* -------------------------------------------------------- Crawler.Crawl

\* The largest CrawlerConfig.MaxDepth and MaxPages a crawler is made with.
MaxDepthBound == 3

MaxPagesBound == 4

\* MaxRetries of the client NewCrawler makes.
CrawlerMaxRetries == 3

\* The URL Crawl starts from.
StartURL == "s"

\* Scope.InScope: the pages s, a, b and c are under the base URL, ext is on
\* another host.
InScope(link) == link \in {"s", "a", "b", "c"}

\* What ExtractLinks finds in a page: no link, or links to other pages, to
\* the start page, to the page itself and out of scope. It lists no link
\* twice.
LinkLists ==
    {<<>>, <<"a", "b">>, <<"a">>, <<"c">>, <<"s", "c">>, <<"ext", "b">>}

\* A crawler made by NewCrawler(config), on which Crawl was not called.
NewCrawl(maxDepth, maxPages) ==
    [pc |-> "idle", MaxDepth |-> maxDepth, MaxPages |-> maxPages,
     visited |-> {}, queue |-> <<>>, endpoints |-> <<>>, err |-> Nil,
     links |-> [u \in {} |-> <<>>], enqueued |-> <<>>, fetched |-> <<>>,
     requests |-> 0, first |-> <<>>]

\* No crawler.
NoCrawl == [NewCrawl(0, 0) EXCEPT !.pc = "off"]

\* Mutant of TooDeep: a page at depth MaxDepth is still fetched.
TooDeepExclusive(depth, maxDepth) == depth > maxDepth

\* The depth check of Crawl: current.depth >= c.config.MaxDepth.
TooDeep(depth, maxDepth) == depth >= maxDepth

\* Mutant of EnqueueLinks: a link is queued without being marked visited.
RECURSIVE EnqueueLinksUnmarked(_, _, _)
EnqueueLinksUnmarked(c, links, depth) ==
    IF links = <<>> THEN c
    ELSE LET link == Head(links)
             next == IF InScope(link) /\ link \notin c.visited
                     THEN [c EXCEPT !.queue = Append(@, [url |-> link, depth |-> depth]),
                                    !.enqueued = Append(@, link)]
                     ELSE c
         IN EnqueueLinksUnmarked(next, Tail(links), depth)

\* The loop over links of Crawl: a link in scope that is not visited is
\* marked visited and appended to the queue at the given depth.
RECURSIVE EnqueueLinks(_, _, _)
EnqueueLinks(c, links, depth) ==
    IF links = <<>> THEN c
    ELSE LET link == Head(links)
             next == IF InScope(link) /\ link \notin c.visited
                     THEN [c EXCEPT !.visited = @ \cup {link},
                                    !.queue = Append(@, [url |-> link, depth |-> depth]),
                                    !.enqueued = Append(@, link)]
                     ELSE c
         IN EnqueueLinks(next, Tail(links), depth)

\* What c.client.Get ends with in Crawl: the call run to its return over
\* three attempts that meet a transport error, a 500 or a 200, with the
\* context cancelled from some attempt after the first on, or never.
CrawlFetches ==
    LET evs == {[do |-> "error", status |-> 0, read |-> FALSE],
                [do |-> "response", status |-> 500, read |-> TRUE],
                [do |-> "response", status |-> 200, read |-> TRUE]}
    IN {GetRun(NewGet(CrawlerMaxRetries, FALSE), <<e1, e2, e3>>, cancelAt) :
            e1 \in evs, e2 \in evs, e3 \in evs, cancelAt \in {0, 2, 3}}

\* No call of Client.Get or Crawler.Crawl is under way.
InitFetchOff ==
    /\ get = NoGet
    /\ crawl = NoCrawl

\* No Discover calls run at once and no Crawler is shared.
InitSharedOff ==
    /\ calls = <<>>
    /\ crawlers = <<>>

\* ------------------------------------------------------------- Registry

\* The longest sequence of Register calls made on one registry.
MaxRegisterCalls == 3

\* ErrNotFound
ErrNotFound == "capability not found"

\* An error a factory returns for a configuration it rejects.
ErrInvalidConfig == "invalid config"

\* registry.New[T]("test")
RegistryName == "test"

\* An error of the registry: what errors.Is finds in it, and the name and the
\* registry its message names.
RegistryError(is, name, registry) == [is |-> is, name |-> name, registry |-> registry]

\* A nil error.
NoError == RegistryError(Nil, <<>>, "")

\* fmt.Errorf("%w: %s in %s registry", ErrNotFound, name, r.name)
NotFoundError(name, registry) == RegistryError(ErrNotFound, name, registry)

\* var zero T
ZeroValue == [madeBy |-> "", cfg |-> ""]

\* A factory func(Config) (T, error): one that returns its own product for
\* any configuration, or one that returns an error.
Factory(id, err) == [id |-> id, err |-> err]

\* The value of factories[name] for a name that is not a key.
NoFactory == Factory("", Nil)

\* factory(cfg): the value and the error it returns.
CallFactory(f, cfg) ==
    IF f.err = Nil
    THEN [value |-> [madeBy |-> f.id, cfg |-> cfg], err |-> NoError]
    ELSE [value |-> ZeroValue, err |-> RegistryError(f.err, <<>>, "")]

\* No factory was called.
NoInvocation == [factory |-> NoFactory, cfg |-> ""]

\* The byte of a character of the model's names.
ByteOf(c) ==
    CASE c = "B" -> 66
      [] c = "a" -> 97
      [] c = "b" -> 98

\* a < b for Go strings: byte-wise lexicographic order.
RECURSIVE StringLess(_, _)
StringLess(a, b) ==
    IF a = <<>> THEN b # <<>>
    ELSE IF b = <<>> THEN FALSE
    ELSE IF ByteOf(a[1]) # ByteOf(b[1]) THEN ByteOf(a[1]) < ByteOf(b[1])
    ELSE StringLess(Tail(a), Tail(b))

\* Mutant of SortStrings: descending order.
RECURSIVE SortStringsDescending(_)
SortStringsDescending(S) ==
    IF S = {} THEN <<>>
    ELSE LET m == CHOOSE x \in S : \A y \in S \ {x} : StringLess(y, x)
         IN <<m>> \o SortStringsDescending(S \ {m})

\* sort.Strings of the names collected from the map, whose iteration order
\* does not matter to the sorted slice.
RECURSIVE SortStrings(_)
SortStrings(S) ==
    IF S = {} THEN <<>>
    ELSE LET m == CHOOSE x \in S : \A y \in S \ {x} : StringLess(x, y)
         IN <<m>> \o SortStrings(S \ {m})

\* Mutant of RegisterStore: the map is replaced by one that holds the new
\* name only.
RegisterStoreOnly(fs, name, f) == [n \in {name} |-> f]

\* Mutant of RegisterStore: a name already registered keeps its factory.
RegisterStoreKeepsFirst(fs, name, f) ==
    [n \in DOMAIN fs \cup {name} |-> IF n \in DOMAIN fs THEN fs[n] ELSE f]

\* r.factories[name] = factory
RegisterStore(fs, name, f) ==
    [n \in DOMAIN fs \cup {name} |-> IF n = name THEN f ELSE fs[n]]

\* Mutant of RegistryCreate: a missing name gives the zero value and no error.
RegistryCreateZeroOnMiss(fs, name, cfg) ==
    IF name \notin DOMAIN fs
    THEN [value |-> ZeroValue, err |-> NoError, invoked |-> NoInvocation]
    ELSE LET out == CallFactory(fs[name], cfg)
         IN [value |-> out.value, err |-> out.err,
             invoked |-> [factory |-> fs[name], cfg |-> cfg]]

\* Registry.Create: the lookup, then the zero value and the wrapped
\* ErrNotFound, or the call of the factory.
RegistryCreate(fs, name, cfg) ==
    IF name \notin DOMAIN fs
    THEN [value |-> ZeroValue, err |-> NotFoundError(name, RegistryName),
          invoked |-> NoInvocation]
    ELSE LET out == CallFactory(fs[name], cfg)
         IN [value |-> out.value, err |-> out.err,
             invoked |-> [factory |-> fs[name], cfg |-> cfg]]

\* Registry.List
RegistryList(fs) == SortStrings(DOMAIN fs)

\* Registry.Has
RegistryHas(fs, name) == name \in DOMAIN fs

\* A Count that counts one factory too many.
RegistryCountOneMore(fs) == Cardinality(DOMAIN fs) + 1

\* Registry.Count: the number of entries of the factories map.
RegistryCount(fs) == Cardinality(DOMAIN fs)

\* The registry before any call on it.
NoCall ==
    [op |-> "none", name |-> <<>>, cfg |-> "", value |-> ZeroValue, err |-> NoError,
     invoked |-> NoInvocation, list |-> <<>>, has |-> FALSE, count |-> 0]

InitRegistryOff ==
    /\ factories = [n \in {} |-> NoFactory]
    /\ regLog = <<>>
    /\ lastCall = NoCall

\* No goroutine is calling the registry.
InitLocksOff == rw = [writer |-> 0, readers |-> {}, proc |-> <<>>]


InitDedupeOff ==
    /\ dInput = <<>>
    /\ dPhase = "off"
    /\ dOutput = <<>>
    /\ dTwice = <<>>

\* NewOrchestrator(probeList), and a target to scan.
Init ==
    /\ probes \in ProbeLists
    /\ target \in Targets
    /\ dpc = "idle"
    /\ InitDiscoverIdle
    /\ InitPipelineOff
    /\ InitRegistryOff
    /\ InitLocksOff
    /\ InitFetchOff
    /\ InitSharedOff
    /\ InitDedupeOff

\* Discover up to the dispatch loop: sort, filter, make the results slice.
DiscoverStart ==
    /\ dpc = "idle"
    /\ ~crashed
    /\ \E sorted \in sortProbesByPriority(probes) :
         /\ accepting' = FilterAccepting(sorted, target)
         /\ results' = MakeResults(Len(accepting'))
         /\ written' = [i \in 1..Len(accepting') |-> 0]
         /\ writer' = [i \in 1..Len(accepting') |-> 0]
         /\ unit' = [i \in 1..Len(accepting') |->
                       [pc |-> "unspawned", ctxAtCall |-> FALSE,
                        ctxAtReturn |-> FALSE, out |-> NoOutcome]]
    /\ spawned' = 0
    /\ wg' = 0
    /\ dpc' = "dispatch"
    /\ UNCHANGED <<probes, target, ctxDone, crashed, runCalls, lastStored, ret>>
    /\ UNCHANGED <<varsDedupe, varsPipeline, varsRegistry,
                   varsLocks, varsFetch, varsShared>>

\* One turn of the dispatch loop: wg.Add(1); go func(idx, p).
DiscoverSpawn ==
    /\ dpc = "dispatch"
    /\ ~crashed
    /\ spawned < Len(accepting)
    /\ wg' = wg + 1
    /\ unit' = [unit EXCEPT ![spawned + 1].pc = "spawned"]
    /\ spawned' = spawned + 1
    /\ UNCHANGED <<probes, target, ctxDone, dpc, accepting, results, written, writer,
                   crashed, runCalls, lastStored, ret>>
    /\ UNCHANGED <<varsDedupe, varsPipeline, varsRegistry,
                   varsLocks, varsFetch, varsShared>>

\* The goroutine calls p.Run(ctx, target, opts).
UnitRunCall(i) ==
    /\ ~crashed
    /\ unit[i].pc = "spawned"
    /\ unit' = [unit EXCEPT ![i].pc = "running", ![i].ctxAtCall = ctxDone]
    /\ runCalls' = runCalls \cup {accepting[i]}
    /\ UNCHANGED <<probes, target, ctxDone, dpc, accepting, results, written, writer,
                   spawned, wg, crashed, lastStored, ret>>
    /\ UNCHANGED <<varsDedupe, varsPipeline, varsRegistry,
                   varsLocks, varsFetch, varsShared>>

\* Run ends. Either the goroutine assigns its slot, or it panics (Run
\* panicked, or returned a nil result with a nil error and *result is a nil
\* dereference): then the assignment is skipped and the panic unwinds.
UnitRunReturn(i) ==
    /\ ~crashed
    /\ unit[i].pc = "running"
    /\ \E out \in Run(accepting[i], unit[i].ctxAtCall, ctxDone) :
         IF UnitPanics(out)
         THEN /\ unit' = [unit EXCEPT ![i].pc = "panicking", ![i].out = out,
                                      ![i].ctxAtReturn = ctxDone]
              /\ UNCHANGED <<results, written, writer, lastStored>>
         ELSE LET k == WriteIndex(i, written)
              IN /\ results' = [results EXCEPT ![k] = StoreResult(accepting[i], out)]
                 /\ written' = [written EXCEPT ![k] = @ + 1]
                 /\ writer' = [writer EXCEPT ![k] = i]
                 /\ lastStored' = i
                 /\ unit' = [unit EXCEPT ![i].pc = "stored", ![i].out = out,
                                         ![i].ctxAtReturn = ctxDone]
    /\ UNCHANGED <<probes, target, ctxDone, dpc, accepting, spawned, wg, crashed,
                   runCalls, ret>>
    /\ UNCHANGED <<varsDedupe, varsPipeline, varsRegistry,
                   varsLocks, varsFetch, varsShared>>

\* The deferred wg.Done(): it runs as the goroutine returns and, the function
\* having no recover(), as a panic unwinds it.
UnitDone(i) ==
    /\ ~crashed
    /\ unit[i].pc \in {"stored", "panicking"}
    /\ wg' = wg - 1
    /\ unit' = [unit EXCEPT ![i].pc = IF unit[i].pc = "stored" THEN "done" ELSE "unwound"]
    /\ UNCHANGED <<probes, target, ctxDone, dpc, accepting, results, written,
                   writer, spawned, crashed, runCalls, lastStored, ret>>
    /\ UNCHANGED <<varsDedupe, varsPipeline, varsRegistry,
                   varsLocks, varsFetch, varsShared>>

\* The panic of a goroutine that has run its deferred calls reaches the top of
\* the goroutine: the runtime ends the process, and nothing runs after.
Crash ==
    /\ ~crashed
    /\ \E i \in DOMAIN unit : unit[i].pc = "unwound"
    /\ crashed' = TRUE
    /\ UNCHANGED <<probes, target, ctxDone, dpc, accepting, results, written, writer,
                   unit, spawned, wg, runCalls, lastStored, ret>>
    /\ UNCHANGED <<varsDedupe, varsPipeline, varsRegistry,
                   varsLocks, varsFetch, varsShared>>

\* wg.Wait() returns and Discover returns results, nil.
DiscoverReturn ==
    /\ dpc = "dispatch"
    /\ ~crashed
    /\ spawned = Len(accepting)
    /\ WaitReturns(wg)
    /\ ret' = [returned |-> TRUE, results |-> results, err |-> Nil]
    /\ dpc' = "returned"
    /\ UNCHANGED <<probes, target, ctxDone, accepting, results, written, writer, unit,
                   spawned, wg, crashed, runCalls, lastStored>>
    /\ UNCHANGED <<varsDedupe, varsPipeline, varsRegistry,
                   varsLocks, varsFetch, varsShared>>

\* The caller cancels ctx.
Cancel ==
    /\ ~crashed
    /\ ~ctxDone
    /\ dpc # "returned"
    /\ ctxDone' = TRUE
    /\ UNCHANGED <<probes, target, dpc, accepting, results, written, writer, unit,
                   spawned, wg, crashed, runCalls, lastStored, ret>>
    /\ UNCHANGED <<varsDedupe, varsPipeline, varsRegistry,
                   varsLocks, varsFetch, varsShared>>

\* results = discovery.DedupeEndpoints(results), on what Discover returned.
PipelineDedupe ==
    /\ ~crashed
    /\ ret.returned
    /\ dPhase = "off"
    /\ dInput' = ret.results
    /\ dOutput' = DedupeEndpoints(ret.results)
    /\ dPhase' = "deduped"
    /\ UNCHANGED dTwice
    /\ UNCHANGED <<varsDiscover, varsPipeline, varsRegistry,
                   varsLocks, varsFetch, varsShared>>

\* findings := output.ToFindings(results), on the deduplicated results.
PipelineToFindings ==
    /\ ~crashed
    /\ dPhase = "deduped"
    /\ findings' = ToFindings(dOutput)
    /\ dPhase' = "findings"
    /\ UNCHANGED <<dInput, dOutput, dTwice>>
    /\ UNCHANGED <<varsDiscover, varsRegistry,
                   varsLocks, varsFetch, varsShared>>

Next ==
    \/ DiscoverStart
    \/ DiscoverSpawn
    \/ \E i \in DOMAIN unit : UnitRunCall(i)
    \/ \E i \in DOMAIN unit : UnitRunReturn(i)
    \/ \E i \in DOMAIN unit : UnitDone(i)
    \/ Crash
    \/ DiscoverReturn
    \/ Cancel

Spec == Init /\ [][Next]_vars

\* ------------------------- Discover, with a Run that returns (nil, nil)

\* NewOrchestrator with a list that holds NilResultProbe, alone or beside
\* one other probe, before or behind it.
InitNilResult ==
    /\ probes \in {<<NilResultProbe>>}
                    \cup {<<AllProbes[k], NilResultProbe>> : k \in DOMAIN AllProbes}
                    \cup {<<NilResultProbe, AllProbes[k]>> : k \in DOMAIN AllProbes}
    /\ target \in Targets
    /\ dpc = "idle"
    /\ InitDiscoverIdle
    /\ InitPipelineOff
    /\ InitRegistryOff
    /\ InitLocksOff
    /\ InitFetchOff
    /\ InitSharedOff
    /\ InitDedupeOff

SpecNilResult == InitNilResult /\ [][Next]_vars

\* ------------------------------------- Discover, with Runs that block

\* The probes whose Run waits on a server through an http.Client that has
\* no Timeout, with opts.Timeout unused: a server that never answers keeps
\* Run from returning.
CanBlock(p) == p.kind \in {"openapi", "graphql", "wsdl"}

\* The Run of unit i waits on a server that never answers.
UnitRunBlocks(i) ==
    /\ ~crashed
    /\ unit[i].pc = "running"
    /\ CanBlock(accepting[i])
    /\ unit' = [unit EXCEPT ![i].pc = "blocked"]
    /\ UNCHANGED <<probes, target, ctxDone, dpc, accepting, results, written, writer,
                   spawned, wg, crashed, runCalls, lastStored, ret>>
    /\ UNCHANGED <<varsDedupe, varsPipeline, varsRegistry,
                   varsLocks, varsFetch, varsShared>>

NextLive ==
    \/ Next
    \/ \E i \in DOMAIN unit : UnitRunBlocks(i)

\* The scheduler is fair to the caller of Discover and to every goroutine: a
\* step of the program that stays possible is taken. A Run that can return
\* does, unless it has come to wait on a server that never answers. The
\* caller need never cancel.
FairLive ==
    /\ WF_vars(DiscoverStart)
    /\ WF_vars(DiscoverSpawn)
    /\ WF_vars(DiscoverReturn)
    /\ WF_vars(Crash)
    /\ \A i \in 1..MaxProbes :
         /\ WF_vars(i \in DOMAIN unit /\ UnitRunCall(i))
         /\ WF_vars(i \in DOMAIN unit /\ UnitRunReturn(i))
         /\ WF_vars(i \in DOMAIN unit /\ UnitDone(i))

SpecLive == Init /\ [][NextLive]_vars /\ FairLive

\* ------------------------------------- Discover, called twice at once

\* The goroutines that call Discover on the one Orchestrator.
Callers == {1, 2}

\* Mutant of ProbesAfterSort: o.probes itself is sorted.
ProbesAfterSortInPlace(ps, sorted) == sorted

\* o.probes once sortProbesByPriority has returned: sort.Slice has worked on
\* the copy sorted, so the list is as it was.
ProbesAfterSort(ps, sorted) == ps

\* make([]probes.ProbeResult, n): a slice of its own, n zero values none of
\* which has been assigned; by holds the callers that assigned a slot.
MakeSlice(n) == [k \in 1..n |-> [val |-> ZeroResult, by |-> {}]]

\* A Discover call that has not started, for the target tgt.
NewCall(tgt) ==
    [pc |-> "idle", target |-> tgt, sorted |-> <<>>, accepting |-> <<>>,
     slice |-> 0, pending |-> {}, stored |-> <<>>, ret |-> NotReturned]

\* The probe lists of an Orchestrator that is shared: lists of the crawler,
\* a protocol probe and the two spec probes of equal Priority.
SharedProbeLists ==
    {ps \in ProbeLists :
        \A i \in DOMAIN ps :
            ps[i] \in {CrawlerProbe, GRPCProbe, OpenAPIProbe, WSDLProbe}}

\* NewOrchestrator(probeList), and two goroutines about to call Discover, each
\* for a target.
InitCalls ==
    /\ probes \in SharedProbeLists
    /\ target = [Host |-> "test-server", Port |-> 443]
    /\ dpc = "off"
    /\ InitDiscoverIdle
    /\ InitPipelineOff
    /\ InitRegistryOff
    /\ InitLocksOff
    /\ InitFetchOff
    /\ InitDedupeOff
    /\ crawlers = <<>>
    /\ calls \in {[given |-> probes, heap |-> <<>>, crashed |-> FALSE,
                   call |-> [c \in Callers |-> NewCall(tgt[c])]] :
                     tgt \in [Callers -> Targets]}

\* sortedProbes := o.sortProbesByPriority()
CallSort(c) ==
    /\ ~calls.crashed
    /\ calls.call[c].pc = "idle"
    /\ \E sorted \in sortProbesByPriority(probes) :
         /\ probes' = ProbesAfterSort(probes, sorted)
         /\ calls' = [calls EXCEPT !.call[c].sorted = sorted,
                                   !.call[c].pc = "filter"]
    /\ UNCHANGED <<target, ctxDone, dpc, accepting, results, written, writer, unit,
                   spawned, wg, crashed, runCalls, lastStored, ret, crawlers>>
    /\ UNCHANGED <<varsDedupe, varsPipeline, varsRegistry, varsLocks, varsFetch>>

\* The filter loop, results := make(...) and the dispatch loop: one goroutine
\* for each accepting probe.
CallFilter(c) ==
    /\ ~calls.crashed
    /\ calls.call[c].pc = "filter"
    /\ LET acc == FilterAccepting(calls.call[c].sorted, calls.call[c].target)
       IN calls' = [calls EXCEPT !.heap = Append(@, MakeSlice(Len(acc))),
                                 !.call[c].accepting = acc,
                                 !.call[c].slice = Len(calls.heap) + 1,
                                 !.call[c].pending = 1..Len(acc),
                                 !.call[c].stored = MakeResults(Len(acc)),
                                 !.call[c].pc = "dispatch"]
    /\ UNCHANGED <<varsDiscover, varsDedupe, varsPipeline, varsRegistry,
                   varsLocks, varsFetch, crawlers>>

\* The goroutine idx of call c: p.Run(...), then results[idx] = ...; a panic
\* ends the process.
CallUnit(c, idx) ==
    /\ ~calls.crashed
    /\ calls.call[c].pc = "dispatch"
    /\ idx \in calls.call[c].pending
    /\ LET p == calls.call[c].accepting[idx]
           s == calls.call[c].slice
       IN \E out \in Run(p, FALSE, FALSE) :
            IF UnitPanics(out)
            THEN calls' = [calls EXCEPT !.crashed = TRUE]
            ELSE calls' =
                   [calls EXCEPT !.heap[s][idx] =
                                     [val |-> StoreResult(p, out), by |-> @.by \cup {c}],
                                 !.call[c].stored[idx] = StoreResult(p, out),
                                 !.call[c].pending = @ \ {idx}]
    /\ UNCHANGED <<varsDiscover, varsDedupe, varsPipeline, varsRegistry,
                   varsLocks, varsFetch, crawlers>>

\* wg.Wait() returns; return results, nil.
CallReturn(c) ==
    /\ ~calls.crashed
    /\ calls.call[c].pc = "dispatch"
    /\ WaitReturns(Cardinality(calls.call[c].pending))
    /\ LET s == calls.call[c].slice
       IN calls' = [calls EXCEPT
                      !.call[c].ret =
                          [returned |-> TRUE,
                           results |-> [k \in 1..Len(calls.heap[s]) |-> calls.heap[s][k].val],
                           err |-> Nil],
                      !.call[c].pc = "returned"]
    /\ UNCHANGED <<varsDiscover, varsDedupe, varsPipeline, varsRegistry,
                   varsLocks, varsFetch, crawlers>>

NextCalls ==
    \/ \E c \in Callers : CallSort(c)
    \/ \E c \in Callers : CallFilter(c)
    \/ \E c \in Callers : \E idx \in 1..MaxProbes : CallUnit(c, idx)
    \/ \E c \in Callers : CallReturn(c)

SpecCalls == InitCalls /\ [][NextCalls]_vars

\* ------------------------------------- one Crawler, used by goroutines

\* The goroutines that use the one Crawler: two run Crawl, as two Discover
\* calls running the same CrawlerProbe do, one asks IsVisited or VisitedCount.
CrawlerUsers == {1, 2, 3}

\* The links the pages hold that are in scope.
SharedLinks == {"a", "b"}

\* A goroutine that is in no call on the crawler.
IdleUser == [op |-> "none", pc |-> "idle", link |-> ""]

\* One read or write of c.visited by goroutine p, and whether p held c.mu.
Access(p, kind, key) == [by |-> p, kind |-> kind, key |-> key, held |-> crawlers.mu = p]

\* NewCrawler(config), shared by the goroutines.
InitCrawlers ==
    /\ probes = <<>>
    /\ target = [Host |-> "test-server", Port |-> 443]
    /\ dpc = "off"
    /\ InitDiscoverIdle
    /\ InitPipelineOff
    /\ InitRegistryOff
    /\ InitLocksOff
    /\ InitFetchOff
    /\ InitDedupeOff
    /\ calls = <<>>
    /\ crawlers = [mu |-> 0, visited |-> {}, accesses |-> {}, fatal |-> FALSE,
                   user |-> [p \in CrawlerUsers |-> IdleUser]]

\* A goroutine calls c.Crawl, c.IsVisited or c.VisitedCount.
UserCalls(p, op) ==
    /\ ~crawlers.fatal
    /\ crawlers.user[p].pc = "idle"
    /\ crawlers' = [crawlers EXCEPT !.user[p] =
                      [op |-> op, pc |-> IF op = "Crawl" THEN "start" ELSE "Lock",
                       link |-> ""]]
    /\ UNCHANGED <<varsDiscover, varsDedupe, varsPipeline, varsRegistry,
                   varsLocks, varsFetch, calls>>

\* c.visited[startURL] = true, with no c.mu.Lock() before it. A map write
\* while another goroutine is at the map is a data race: the write takes
\* effect, or the runtime stops the process (concurrent map writes).
CrawlMarkStart(p) ==
    /\ ~crawlers.fatal
    /\ crawlers.user[p].pc = "start"
    /\ \/ crawlers' = [crawlers EXCEPT
                         !.accesses = @ \cup {Access(p, "write", StartURL)},
                         !.visited = @ \cup {StartURL},
                         !.user[p].pc = "links"]
       \/ /\ crawlers.mu \notin {0, p}
          /\ crawlers' = [crawlers EXCEPT
                            !.accesses = @ \cup {Access(p, "write", StartURL)},
                            !.fatal = TRUE]
    /\ UNCHANGED <<varsDiscover, varsDedupe, varsPipeline, varsRegistry,
                   varsLocks, varsFetch, calls>>

\* c.mu.Lock(): in Crawl for a link in scope, or first in IsVisited and
\* VisitedCount.
UserLock(p, link) ==
    /\ ~crawlers.fatal
    /\ \/ crawlers.user[p].pc = "links" /\ link \in SharedLinks
       \/ crawlers.user[p].pc = "Lock" /\ link = ""
    /\ crawlers.mu = 0
    /\ crawlers' = [crawlers EXCEPT !.mu = p,
                                    !.user[p].link = link,
                                    !.user[p].pc = "locked"]
    /\ UNCHANGED <<varsDiscover, varsDedupe, varsPipeline, varsRegistry,
                   varsLocks, varsFetch, calls>>

\* Between Lock and Unlock. Crawl: if !c.visited[link] { c.visited[link] =
\* true; queue = append(...) }. IsVisited: c.visited[url]. VisitedCount:
\* len(c.visited).
UserAccess(p) ==
    /\ ~crawlers.fatal
    /\ crawlers.user[p].pc = "locked"
    /\ LET link == crawlers.user[p].link
           reads == {Access(p, "read", link)}
           writes == IF crawlers.user[p].op = "Crawl" /\ link \notin crawlers.visited
                     THEN {Access(p, "write", link)} ELSE {}
       IN crawlers' = [crawlers EXCEPT
                         !.accesses = @ \cup reads \cup writes,
                         !.visited = IF writes # {} THEN @ \cup {link} ELSE @,
                         !.user[p].pc = "Unlock"]
    /\ UNCHANGED <<varsDiscover, varsDedupe, varsPipeline, varsRegistry,
                   varsLocks, varsFetch, calls>>

\* c.mu.Unlock(): Crawl goes on with its links, IsVisited and VisitedCount
\* return.
UserUnlock(p) ==
    /\ ~crawlers.fatal
    /\ crawlers.user[p].pc = "Unlock"
    /\ crawlers' = [crawlers EXCEPT
                      !.mu = 0,
                      !.user[p] = IF crawlers.user[p].op = "Crawl"
                                  THEN [@ EXCEPT !.pc = "links", !.link = ""]
                                  ELSE IdleUser]
    /\ UNCHANGED <<varsDiscover, varsDedupe, varsPipeline, varsRegistry,
                   varsLocks, varsFetch, calls>>

\* return endpoints, nil
CrawlReturns(p) ==
    /\ ~crawlers.fatal
    /\ crawlers.user[p].pc = "links"
    /\ crawlers' = [crawlers EXCEPT !.user[p] = IdleUser]
    /\ UNCHANGED <<varsDiscover, varsDedupe, varsPipeline, varsRegistry,
                   varsLocks, varsFetch, calls>>

NextCrawlers ==
    \/ \E p \in {1, 2} : UserCalls(p, "Crawl")
    \/ UserCalls(3, "IsVisited")
    \/ UserCalls(3, "VisitedCount")
    \/ \E p \in CrawlerUsers : CrawlMarkStart(p)
    \/ \E p \in CrawlerUsers : \E link \in SharedLinks \cup {""} : UserLock(p, link)
    \/ \E p \in CrawlerUsers : UserAccess(p)
    \/ \E p \in CrawlerUsers : UserUnlock(p)
    \/ \E p \in CrawlerUsers : CrawlReturns(p)

SpecCrawlers == InitCrawlers /\ [][NextCrawlers]_vars

\* A scan: Discover, then DedupeEndpoints, then ToFindings.
NextPipeline ==
    \/ Next
    \/ PipelineDedupe
    \/ PipelineToFindings

SpecPipeline == Init /\ [][NextPipeline]_vars

\* ----------------------------------------------- DedupeEndpoints, applied

\* The endpoints a result list may hold: one path in two spellings, a second
\* method, a second path.
DedupeEndpointValues ==
    {APIEndpoint(PathU, GET), APIEndpoint(PathUpperU, GET),
     APIEndpoint(PathU, POST), APIEndpoint(PathApi, GET)}

\* The (ProbeCategory, Success, Error) a result may carry.
DedupeResultHeaders ==
    {[cat |-> CategoryHTTP, ok |-> TRUE, err |-> Nil],
     [cat |-> CategoryProtocol, ok |-> TRUE, err |-> Nil],
     [cat |-> CategoryProtocol, ok |-> FALSE, err |-> ErrProbeTimeout]}

RECURSIVE TotalEndpoints(_)
TotalEndpoints(rs) ==
    IF rs = <<>> THEN 0
    ELSE SliceLen(rs[1].Endpoints) + TotalEndpoints(Tail(rs))

\* A caller with no result list yet.
InitDedupe ==
    /\ probes = <<>>
    /\ target = [Host |-> "test-server", Port |-> 443]
    /\ dpc = "off"
    /\ InitDiscoverIdle
    /\ InitPipelineOff
    /\ InitRegistryOff
    /\ InitLocksOff
    /\ InitFetchOff
    /\ InitSharedOff
    /\ dInput = <<>>
    /\ dPhase = "build"
    /\ dOutput = <<>>
    /\ dTwice = <<>>

\* The caller appends a result, with a nil or an empty endpoint slice.
AddResult ==
    /\ dPhase = "build"
    /\ Len(dInput) < MaxResults
    /\ \E h \in DedupeResultHeaders, eps \in {NilSlice, Slice(<<>>)} :
         dInput' = Append(dInput, ProbeResult(h.cat, h.ok, eps, h.err))
    /\ UNCHANGED <<dPhase, dOutput, dTwice>>
    /\ UNCHANGED <<varsDiscover, varsPipeline, varsRegistry,
                   varsLocks, varsFetch, varsShared>>

\* The caller appends an endpoint to the last result.
AddEndpoint ==
    /\ dPhase = "build"
    /\ dInput # <<>>
    /\ TotalEndpoints(dInput) < MaxEndpoints
    /\ \E e \in DedupeEndpointValues :
         dInput' = [dInput EXCEPT ![Len(dInput)].Endpoints =
                        Slice(Append(@.elems, e))]
    /\ UNCHANGED <<dPhase, dOutput, dTwice>>
    /\ UNCHANGED <<varsDiscover, varsPipeline, varsRegistry,
                   varsLocks, varsFetch, varsShared>>

\* deduped := DedupeEndpoints(results); the input slice is left as it was.
DedupeCall ==
    /\ dPhase = "build"
    /\ dOutput' = DedupeEndpoints(dInput)
    /\ dPhase' = "deduped"
    /\ UNCHANGED <<dInput, dTwice>>
    /\ UNCHANGED <<varsDiscover, varsPipeline, varsRegistry,
                   varsLocks, varsFetch, varsShared>>

\* DedupeEndpoints applied to its own output.
DedupeAgain ==
    /\ dPhase = "deduped"
    /\ dTwice' = DedupeEndpoints(dOutput)
    /\ dPhase' = "twice"
    /\ UNCHANGED <<dInput, dOutput>>
    /\ UNCHANGED <<varsDiscover, varsPipeline, varsRegistry,
                   varsLocks, varsFetch, varsShared>>

NextDedupe ==
    \/ AddResult
    \/ AddEndpoint
    \/ DedupeCall
    \/ DedupeAgain

SpecDedupe == InitDedupe /\ [][NextDedupe]_vars

\* ------------------------------------------------- ToFindings, applied

\* The (ProbeCategory, Success, Error) of the results given to ToFindings:
\* those of DedupeResultHeaders, a failed result with a nil Error (what
\* GRPCProbe.Run returns) and a successful result that carries an Error.
FindingsResultHeaders ==
    DedupeResultHeaders \cup
    {[cat |-> CategoryProtocol, ok |-> FALSE, err |-> Nil],
     [cat |-> CategoryHTTP, ok |-> TRUE, err |-> ErrProbeTimeout]}

\* The caller appends a result, with a nil or an empty endpoint slice.
AddFindingsResult ==
    /\ dPhase = "build"
    /\ Len(dInput) < MaxResults
    /\ \E h \in FindingsResultHeaders, eps \in {NilSlice, Slice(<<>>)} :
         dInput' = Append(dInput, ProbeResult(h.cat, h.ok, eps, h.err))
    /\ UNCHANGED <<dPhase, dOutput, dTwice>>
    /\ UNCHANGED <<varsDiscover, varsPipeline, varsRegistry,
                   varsLocks, varsFetch, varsShared>>

\* findings := ToFindings(results)
FindingsCall ==
    /\ dPhase = "build"
    /\ findings' = ToFindings(dInput)
    /\ dPhase' = "findings"
    /\ UNCHANGED <<dInput, dOutput, dTwice>>
    /\ UNCHANGED <<varsDiscover, varsRegistry,
                   varsLocks, varsFetch, varsShared>>

NextFindings ==
    \/ AddFindingsResult
    \/ AddEndpoint
    \/ FindingsCall

SpecFindings == InitDedupe /\ [][NextFindings]_vars

\* ---------------------------------------------- the registry, in use

\* The names callers register and ask for.
RegistryNames == {<<"a">>, <<"a", "b">>, <<"b">>, <<"B">>}

\* The factories callers register.
RegistryFactories ==
    {Factory("f1", Nil), Factory("f2", Nil), Factory("rejects", ErrInvalidConfig)}

\* The configurations callers pass: nil, and one with a key.
RegistryConfigs == {"nil", "max_depth"}

\* registry.New[T]("test"), with no call made on it.
InitRegistry ==
    /\ probes = <<>>
    /\ target = [Host |-> "test-server", Port |-> 443]
    /\ dpc = "off"
    /\ InitDiscoverIdle
    /\ InitPipelineOff
    /\ InitRegistryOff
    /\ InitLocksOff
    /\ InitFetchOff
    /\ InitSharedOff
    /\ InitDedupeOff

\* r.Register(name, f)
Register(name, f) ==
    /\ Len(regLog) < MaxRegisterCalls
    /\ factories' = RegisterStore(factories, name, f)
    /\ regLog' = Append(regLog, <<name, f>>)
    /\ lastCall' = [NoCall EXCEPT !.op = "Register", !.name = name]
    /\ UNCHANGED <<varsDiscover, varsDedupe, varsPipeline,
                   varsLocks, varsFetch, varsShared>>

\* r.Create(name, cfg)
Create(name, cfg) ==
    /\ LET out == RegistryCreate(factories, name, cfg)
       IN lastCall' = [NoCall EXCEPT !.op = "Create", !.name = name, !.cfg = cfg,
                                     !.value = out.value, !.err = out.err,
                                     !.invoked = out.invoked]
    /\ UNCHANGED <<factories, regLog>>
    /\ UNCHANGED <<varsDiscover, varsDedupe, varsPipeline,
                   varsLocks, varsFetch, varsShared>>

\* r.List()
List ==
    /\ lastCall' = [NoCall EXCEPT !.op = "List", !.list = RegistryList(factories)]
    /\ UNCHANGED <<factories, regLog>>
    /\ UNCHANGED <<varsDiscover, varsDedupe, varsPipeline,
                   varsLocks, varsFetch, varsShared>>

\* r.Has(name)
Has(name) ==
    /\ lastCall' = [NoCall EXCEPT !.op = "Has", !.name = name,
                                  !.has = RegistryHas(factories, name)]
    /\ UNCHANGED <<factories, regLog>>
    /\ UNCHANGED <<varsDiscover, varsDedupe, varsPipeline,
                   varsLocks, varsFetch, varsShared>>

\* r.Count()
Count ==
    /\ lastCall' = [NoCall EXCEPT !.op = "Count", !.count = RegistryCount(factories)]
    /\ UNCHANGED <<factories, regLog>>
    /\ UNCHANGED <<varsDiscover, varsDedupe, varsPipeline,
                   varsLocks, varsFetch, varsShared>>

NextRegistry ==
    \/ \E name \in RegistryNames, f \in RegistryFactories : Register(name, f)
    \/ \E name \in RegistryNames, cfg \in RegistryConfigs : Create(name, cfg)
    \/ List
    \/ \E name \in RegistryNames : Has(name)
    \/ Count

SpecRegistry == InitRegistry /\ [][NextRegistry]_vars

\* --------------------------------- the registry, called by goroutines

\* The goroutines that call one registry.
MaxGoroutines == 3

Goroutines == 1..MaxGoroutines

\* The name and the factories the goroutines register and ask for.
LockNames == {<<"a">>}

LockFactories == {Factory("f1", Nil), Factory("f2", Nil)}

\* A goroutine that is in no call on the registry.
IdleProc ==
    [op |-> "none", pc |-> "idle", name |-> <<>>, f |-> NoFactory,
     factory |-> NoFactory, ok |-> FALSE, list |-> <<>>, count |-> 0,
     seen |-> <<>>, invoked |-> NoFactory, outer |-> <<>>]

\* Where a goroutine is once its call has returned: in no call, or back in
\* the factory that made the call (outer holds that Create).
Return(pr) == IF pr.outer = <<>> THEN IdleProc ELSE pr.outer[1]

\* Mutant of RUnlockReaders: the read lock is kept after the lookup.
RUnlockReadersHeld(readers, p) == readers

\* The holders of the read lock once p has called r.mu.RUnlock().
RUnlockReaders(readers, p) == readers \ {p}

\* The factory Create calls: the one its lookup under the read lock found.
InvokedFactory(pr, fs) == pr.factory

\* r.mu.Lock() announces the writer once no other writer holds or awaits the lock.
CanLock(w) == w = 0

\* Mutant of Drained: the writer goes on while readers hold the lock.
DrainedAlways(readers) == TRUE

\* r.mu.Lock() returns once the readers that held the lock have released it.
Drained(readers) == readers = {}

\* r.mu.RLock() returns unless a writer holds or awaits the lock, whatever
\* readers hold it.
CanRLock(w, readers) == w = 0

\* The goroutines inside r.mu.Lock() ... r.mu.Unlock().
WritersInside == {p \in DOMAIN rw.proc : rw.proc[p].pc \in {"write", "Unlock"}}

\* The goroutines inside r.mu.RLock() ... r.mu.RUnlock().
ReadersInside == {p \in DOMAIN rw.proc : rw.proc[p].pc \in {"read", "RUnlock"}}

\* registry.New[T]("test"), shared by the goroutines.
InitRegistryLocks ==
    /\ probes = <<>>
    /\ target = [Host |-> "test-server", Port |-> 443]
    /\ dpc = "off"
    /\ InitDiscoverIdle
    /\ InitPipelineOff
    /\ InitRegistryOff
    /\ rw = [writer |-> 0, readers |-> {}, proc |-> [p \in Goroutines |-> IdleProc]]
    /\ InitFetchOff
    /\ InitSharedOff
    /\ InitDedupeOff

\* A goroutine calls r.Register(name, f).
CallRegister(p, name, f) ==
    /\ rw.proc[p].pc = "idle"
    /\ rw' = [rw EXCEPT !.proc[p] = [IdleProc EXCEPT !.op = "Register", !.pc = "Lock",
                                                      !.name = name, !.f = f]]
    /\ UNCHANGED <<varsDiscover, varsDedupe, varsPipeline, varsRegistry, varsFetch, varsShared>>

\* A goroutine calls r.Create(name, cfg), r.List(), r.Has(name) or r.Count().
CallRead(p, op, name) ==
    /\ rw.proc[p].pc = "idle"
    /\ rw' = [rw EXCEPT !.proc[p] = [IdleProc EXCEPT !.op = op, !.pc = "RLock",
                                                      !.name = name]]
    /\ UNCHANGED <<varsDiscover, varsDedupe, varsPipeline, varsRegistry, varsFetch, varsShared>>

\* r.mu.Lock(), first half: the writer is announced, and readers that come
\* later wait.
LockAnnounce(p) ==
    /\ rw.proc[p].pc = "Lock"
    /\ CanLock(rw.writer)
    /\ rw' = [rw EXCEPT !.writer = p, !.proc[p].pc = "LockWait"]
    /\ UNCHANGED <<varsDiscover, varsDedupe, varsPipeline, varsRegistry, varsFetch, varsShared>>

\* r.mu.Lock(), second half: it returns.
LockAcquire(p) ==
    /\ rw.proc[p].pc = "LockWait"
    /\ Drained(rw.readers)
    /\ rw' = [rw EXCEPT !.proc[p].pc = "write"]
    /\ UNCHANGED <<varsDiscover, varsDedupe, varsPipeline, varsRegistry, varsFetch, varsShared>>

\* r.factories[name] = factory
RegisterWrite(p) ==
    /\ rw.proc[p].pc = "write"
    /\ factories' = RegisterStore(factories, rw.proc[p].name, rw.proc[p].f)
    /\ rw' = [rw EXCEPT !.proc[p].pc = "Unlock"]
    /\ UNCHANGED <<regLog, lastCall>>
    /\ UNCHANGED <<varsDiscover, varsDedupe, varsPipeline, varsFetch, varsShared>>

\* The deferred r.mu.Unlock(), and Register returns.
Unlock(p) ==
    /\ rw.proc[p].pc = "Unlock"
    /\ rw' = [rw EXCEPT !.writer = 0, !.proc[p] = Return(rw.proc[p])]
    /\ UNCHANGED <<varsDiscover, varsDedupe, varsPipeline, varsRegistry, varsFetch, varsShared>>

\* r.mu.RLock()
RLock(p) ==
    /\ rw.proc[p].pc = "RLock"
    /\ CanRLock(rw.writer, rw.readers)
    /\ rw' = [rw EXCEPT !.readers = @ \cup {p}, !.proc[p].pc = "read"]
    /\ UNCHANGED <<varsDiscover, varsDedupe, varsPipeline, varsRegistry, varsFetch, varsShared>>

\* The read of r.factories made under the read lock: the lookup of Create
\* and of Has, the collection and sort of List, the len of Count.
ReadMap(p) ==
    /\ rw.proc[p].pc = "read"
    /\ LET op == rw.proc[p].op
           name == rw.proc[p].name
       IN rw' = [rw EXCEPT
                   !.proc[p].pc = "RUnlock",
                   !.proc[p].ok = IF op \in {"Create", "Has"}
                                  THEN RegistryHas(factories, name) ELSE FALSE,
                   !.proc[p].factory = IF op = "Create" /\ name \in DOMAIN factories
                                       THEN factories[name] ELSE NoFactory,
                   !.proc[p].seen = IF op = "Create" THEN factories ELSE <<>>,
                   !.proc[p].list = IF op = "List" THEN RegistryList(factories) ELSE <<>>,
                   !.proc[p].count = IF op = "Count" THEN RegistryCount(factories) ELSE 0]
    /\ UNCHANGED <<varsDiscover, varsDedupe, varsPipeline, varsRegistry, varsFetch, varsShared>>

\* r.mu.RUnlock(): List, Has and Count return; Create goes on outside the lock.
RUnlock(p) ==
    /\ rw.proc[p].pc = "RUnlock"
    /\ rw' = [rw EXCEPT !.readers = RUnlockReaders(@, p),
                        !.proc[p] = IF rw.proc[p].op = "Create"
                                    THEN [@ EXCEPT !.pc = "factory"]
                                    ELSE Return(rw.proc[p])]
    /\ UNCHANGED <<varsDiscover, varsDedupe, varsPipeline, varsRegistry, varsFetch, varsShared>>

\* return factory(cfg): Create, outside the lock, calls the factory.
FactoryInvoke(p) ==
    /\ rw.proc[p].pc = "factory"
    /\ rw.proc[p].ok
    /\ rw' = [rw EXCEPT !.proc[p].pc = "running",
                        !.proc[p].invoked = InvokedFactory(rw.proc[p], factories)]
    /\ UNCHANGED <<varsDiscover, varsDedupe, varsPipeline, varsRegistry, varsFetch, varsShared>>

\* Create returns the not-found error, or what the factory returned.
CreateReturn(p) ==
    /\ \/ rw.proc[p].pc = "factory" /\ ~rw.proc[p].ok
       \/ rw.proc[p].pc = "running"
    /\ rw' = [rw EXCEPT !.proc[p] = Return(rw.proc[p])]
    /\ UNCHANGED <<varsDiscover, varsDedupe, varsPipeline, varsRegistry, varsFetch, varsShared>>

NextRegistryLocks ==
    \/ \E p \in Goroutines, name \in LockNames, f \in LockFactories : CallRegister(p, name, f)
    \/ \E p \in Goroutines, name \in LockNames : CallRead(p, "Create", name)
    \/ \E p \in Goroutines, name \in LockNames : CallRead(p, "Has", name)
    \/ \E p \in Goroutines : CallRead(p, "List", <<>>)
    \/ \E p \in Goroutines : CallRead(p, "Count", <<>>)
    \/ \E p \in Goroutines : LockAnnounce(p)
    \/ \E p \in Goroutines : LockAcquire(p)
    \/ \E p \in Goroutines : RegisterWrite(p)
    \/ \E p \in Goroutines : Unlock(p)
    \/ \E p \in Goroutines : RLock(p)
    \/ \E p \in Goroutines : ReadMap(p)
    \/ \E p \in Goroutines : RUnlock(p)
    \/ \E p \in Goroutines : FactoryInvoke(p)
    \/ \E p \in Goroutines : CreateReturn(p)

SpecRegistryLocks == InitRegistryLocks /\ [][NextRegistryLocks]_vars

\* ------------------------ the registry, called from inside a factory

\* The goroutines of a registry whose factories call the registry.
Reentrants == {1, 2}

\* registry.New[T]("test"), shared by two goroutines.
InitReentrant ==
    /\ probes = <<>>
    /\ target = [Host |-> "test-server", Port |-> 443]
    /\ dpc = "off"
    /\ InitDiscoverIdle
    /\ InitPipelineOff
    /\ InitRegistryOff
    /\ rw = [writer |-> 0, readers |-> {}, proc |-> [p \in Reentrants |-> IdleProc]]
    /\ InitFetchOff
    /\ InitSharedOff
    /\ InitDedupeOff

\* The factory Create is running calls r.Register, r.Create, r.Has, r.List or
\* r.Count on the registry it was looked up in.
FactoryCalls(p, op, name, f) ==
    /\ rw.proc[p].pc = "running"
    /\ rw.proc[p].outer = <<>>
    /\ rw' = [rw EXCEPT !.proc[p] =
                 [IdleProc EXCEPT !.op = op,
                                  !.pc = IF op = "Register" THEN "Lock" ELSE "RLock",
                                  !.name = name,
                                  !.f = f,
                                  !.outer = <<rw.proc[p]>>]]
    /\ UNCHANGED <<varsDiscover, varsDedupe, varsPipeline, varsRegistry, varsFetch, varsShared>>

NextReentrant ==
    \/ \E p \in Reentrants, name \in LockNames, f \in LockFactories : CallRegister(p, name, f)
    \/ \E p \in Reentrants, name \in LockNames : CallRead(p, "Create", name)
    \/ \E p \in Reentrants, name \in LockNames, f \in LockFactories :
          FactoryCalls(p, "Register", name, f)
    \/ \E p \in Reentrants, name \in LockNames, op \in {"Create", "Has"} :
          FactoryCalls(p, op, name, NoFactory)
    \/ \E p \in Reentrants, op \in {"List", "Count"} : FactoryCalls(p, op, <<>>, NoFactory)
    \/ \E p \in Reentrants : LockAnnounce(p)
    \/ \E p \in Reentrants : LockAcquire(p)
    \/ \E p \in Reentrants : RegisterWrite(p)
    \/ \E p \in Reentrants : Unlock(p)
    \/ \E p \in Reentrants : RLock(p)
    \/ \E p \in Reentrants : ReadMap(p)
    \/ \E p \in Reentrants : RUnlock(p)
    \/ \E p \in Reentrants : FactoryInvoke(p)
    \/ \E p \in Reentrants : CreateReturn(p)

SpecReentrant == InitReentrant /\ [][NextReentrant]_vars

\* ------------------------------------------------- Client.Get, called

\* client.Get(ctx, url) is called on a client made with some MaxRetries, for
\* a URL a request can be made of or not.
InitGet ==
    /\ probes = <<>>
    /\ target = [Host |-> "test-server", Port |-> 443]
    /\ dpc = "off"
    /\ InitDiscoverIdle
    /\ InitPipelineOff
    /\ InitRegistryOff
    /\ InitLocksOff
    /\ InitDedupeOff
    /\ get \in {NewGet(m, bad) : m \in 0..MaxRetriesBound, bad \in BOOLEAN}
    /\ crawl = NoCrawl
    /\ InitSharedOff

\* One pass of the loop of Get.
GetAttempt ==
    /\ get.pc = "loop"
    /\ \E ev \in GetEvents : get' = GetStep(get, ev, ctxDone)
    /\ UNCHANGED <<crawl, varsShared>>
    /\ UNCHANGED <<varsDiscover, varsDedupe, varsPipeline, varsRegistry, varsLocks>>

NextGet ==
    \/ GetAttempt
    \/ Cancel

SpecGet == InitGet /\ [][NextGet]_vars

\* ----------------------------------------------- Crawler.Crawl, called

\* NewCrawler(&CrawlerConfig{MaxDepth, MaxPages}), on a site whose pages are
\* known as they are fetched.
InitCrawl ==
    /\ probes = <<>>
    /\ target = [Host |-> "test-server", Port |-> 443]
    /\ dpc = "off"
    /\ InitDiscoverIdle
    /\ InitPipelineOff
    /\ InitRegistryOff
    /\ InitLocksOff
    /\ InitDedupeOff
    /\ get = NoGet
    /\ crawl \in {NewCrawl(d, n) : d \in 0..MaxDepthBound, n \in 0..MaxPagesBound}
    /\ InitSharedOff

\* The links a page holds: those it held when it was fetched before, the
\* site being the same from call to call, or any list for a page not seen.
PageLinks(c, url) ==
    IF url \in DOMAIN c.links THEN {c.links[url]} ELSE LinkLists

\* crawler.Crawl(ctx, startURL, scope) up to its loop: the start URL is
\* marked visited and put in the queue at depth 0.
CrawlCall ==
    /\ crawl.pc = "idle"
    /\ crawl' = [crawl EXCEPT !.pc = "loop",
                              !.visited = @ \cup {StartURL},
                              !.queue = <<[url |-> StartURL, depth |-> 0]>>,
                              !.enqueued = <<StartURL>>]
    /\ UNCHANGED <<get, varsShared>>
    /\ UNCHANGED <<varsDiscover, varsDedupe, varsPipeline, varsRegistry, varsLocks>>

\* One pass of the loop of Crawl from its condition on: Crawl returns, or
\* the head of the queue is taken and skipped for its depth, or the context
\* is found cancelled, or the page is fetched by Client.Get, which the
\* caller may cancel while it runs; a page fetched is added to the endpoints
\* and its links are queued.
CrawlIterate ==
    /\ crawl.pc = "loop"
    /\ IF ~(Len(crawl.queue) > 0 /\ Len(crawl.endpoints) < crawl.MaxPages)
       THEN /\ crawl' = [crawl EXCEPT !.pc = "returned", !.err = Nil]
            /\ UNCHANGED ctxDone
       ELSE LET current == Head(crawl.queue)
                taken == [crawl EXCEPT !.queue = Tail(@)]
            IN IF TooDeep(current.depth, crawl.MaxDepth)
               THEN /\ crawl' = taken
                    /\ UNCHANGED ctxDone
               ELSE IF ctxDone
               THEN /\ crawl' = [taken EXCEPT !.pc = "returned", !.err = ErrCanceled]
                    /\ UNCHANGED ctxDone
               ELSE \E g \in CrawlFetches :
                      LET asked == [taken EXCEPT !.fetched = Append(@, current.url),
                                                 !.requests = @ + g.sent]
                      IN /\ ctxDone' = (g.err.cause = ErrCanceled)
                         /\ IF g.err # GetError("", Nil)
                            THEN crawl' = asked
                            ELSE \E links \in PageLinks(crawl, current.url) :
                                   crawl' = EnqueueLinks(
                                       [asked EXCEPT
                                          !.endpoints = Append(@, current.url),
                                          !.links = [u \in DOMAIN @ \cup {current.url} |->
                                                       IF u = current.url THEN links
                                                       ELSE @[u]]],
                                       links, current.depth + 1)
    /\ UNCHANGED <<get, varsShared>>
    /\ UNCHANGED <<probes, target, dpc, accepting, results, written, writer, unit,
                   spawned, wg, crashed, runCalls, lastStored, ret>>
    /\ UNCHANGED <<varsDedupe, varsPipeline, varsRegistry, varsLocks>>

NextCrawl ==
    \/ CrawlCall
    \/ CrawlIterate
    \/ Cancel

SpecCrawl == InitCrawl /\ [][NextCrawl]_vars

\* ------------------------------------- Crawler.Crawl, called again

\* A second crawler.Crawl(ctx, startURL, scope) on the crawler whose first
\* call has returned, with a context of its own: queue and endpoints are
\* locals of the call, c.visited is the crawler's and is as the first call
\* left it.
CrawlAgain ==
    /\ crawl.pc = "returned"
    /\ crawl.first = <<>>
    /\ crawl' = [crawl EXCEPT
                   !.pc = "loop",
                   !.first = <<[endpoints |-> crawl.endpoints, err |-> crawl.err,
                                fetched |-> crawl.fetched]>>,
                   !.visited = @ \cup {StartURL},
                   !.queue = <<[url |-> StartURL, depth |-> 0]>>,
                   !.endpoints = <<>>,
                   !.err = Nil,
                   !.enqueued = <<StartURL>>,
                   !.fetched = <<>>,
                   !.requests = 0]
    /\ ctxDone' = FALSE
    /\ UNCHANGED <<get, varsShared>>
    /\ UNCHANGED <<probes, target, dpc, accepting, results, written, writer, unit,
                   spawned, wg, crashed, runCalls, lastStored, ret>>
    /\ UNCHANGED <<varsDedupe, varsPipeline, varsRegistry, varsLocks>>

NextRecrawl ==
    \/ NextCrawl
    \/ CrawlAgain

SpecRecrawl == InitCrawl /\ [][NextRecrawl]_vars

\* ------------------------------------ DedupeEndpoints on two endpoints

\* Methods a caller's endpoints may carry: two verbs, one in lower case, and
\* one that ends in the separator of the key.
KeyMethods == {GET, POST, <<"g", "e", "t">>, GET \o <<":">>}

\* Paths: one path in two spellings, a second path, and one that begins with
\* the separator of the key.
KeyPaths == {PathU, PathUpperU, PathApi, <<":">> \o PathU}

KeyEndpointValues == {APIEndpoint(p, m) : p \in KeyPaths, m \in KeyMethods}

\* A caller with one successful result of two endpoints.
InitKey ==
    /\ probes = <<>>
    /\ target = [Host |-> "test-server", Port |-> 443]
    /\ dpc = "off"
    /\ InitDiscoverIdle
    /\ InitPipelineOff
    /\ InitRegistryOff
    /\ InitLocksOff
    /\ InitFetchOff
    /\ InitSharedOff
    /\ \E e1, e2 \in KeyEndpointValues :
         dInput = <<ProbeResult(CategoryHTTP, TRUE, Slice(<<e1, e2>>), Nil)>>
    /\ dPhase = "build"
    /\ dOutput = <<>>
    /\ dTwice = <<>>

NextKey == DedupeCall

SpecKey == InitKey /\ [][NextKey]_vars

\* ------------------------------------------------- claims about Discover

\* The positions of the probe list whose probe accepts the target.
AcceptedPositions == {j \in DOMAIN probes : Accepts(probes[j], target)}

\* Run of unit i returned a non-nil error.
RunErrored(i) == unit[i].out.kind = "ret" /\ unit[i].out.err # Nil

\* Run of unit i returned a nil error and a result with Success=true.
RunSucceeded(i) ==
    /\ unit[i].out.kind = "ret"
    /\ unit[i].out.err = Nil
    /\ ~unit[i].out.nilResult
    /\ unit[i].out.result.Success

\* C1: whatever the probe list, the target and the interleaving, the list
\* Discover returns is as long as the number of probes that accept the target,
\* and its slots stand one to one for the accepted probes.
C1_OneResultPerAcceptedProbe ==
    ret.returned =>
        /\ Len(ret.results) = Cardinality(AcceptedPositions)
        /\ \E f \in [DOMAIN ret.results -> AcceptedPositions] :
             /\ \A i, j \in DOMAIN ret.results : f[i] = f[j] => i = j
             /\ \A i \in DOMAIN ret.results : accepting[i] = probes[f[i]]

\* C1 witness: Discover has returned for a list of which one probe accepts the
\* target and another does not.
C1_Witness ==
    /\ ret.returned
    /\ Len(ret.results) >= 1
    /\ Len(probes) > Len(ret.results)

\* C2: slot i of the returned list belongs to the i-th accepted probe in
\* descending priority order, whichever unit finished first: the accepted
\* probes are in descending priority order, no slot was assigned by another
\* unit than its own, and a unit that assigned a result finds it in its slot.
C2_SlotsFollowPriority ==
    ret.returned =>
        /\ \A i, j \in DOMAIN ret.results :
             i < j => Priority(accepting[i]) >= Priority(accepting[j])
        /\ \A i \in DOMAIN ret.results :
             /\ writer[i] \in {0, i}
             /\ unit[i].pc \in {"stored", "done"} =>
                  /\ writer[i] = i
                  /\ ret.results[i] = StoreResult(accepting[i], unit[i].out)

\* C2 witness: the higher-priority probe finished last and holds slot 1.
C2_Witness ==
    /\ ret.returned
    /\ Len(ret.results) = 2
    /\ Priority(accepting[1]) > Priority(accepting[2])
    /\ lastStored = 1
    /\ writer = <<1, 2>>

\* C3: Run is never called on a probe that does not accept the target, and no
\* unit and no slot of the returned list belongs to such a probe.
C3_RejectedNeverRun ==
    /\ \A p \in runCalls : Accepts(p, target)
    /\ \A i \in DOMAIN unit : Accepts(accepting[i], target)
    /\ ret.returned => Len(ret.results) = Len(accepting)

\* C3 witness: Discover has returned, some probe of the list does not accept
\* the target, and Run was called on another.
C3_Witness ==
    /\ ret.returned
    /\ \E j \in DOMAIN probes : ~Accepts(probes[j], target)
    /\ runCalls # {}

\* C4: Discover's own error is nil; the slot of a probe whose Run returned an
\* error is failed and carries that error; the slot of a probe whose Run
\* succeeded is successful and holds the endpoints Run returned.
C4_ErrorIsolation ==
    ret.returned =>
        /\ ret.err = Nil
        /\ \A i \in DOMAIN ret.results :
             /\ RunErrored(i) =>
                  /\ ~ret.results[i].Success
                  /\ ret.results[i].Error # Nil
                  /\ ret.results[i].Error = unit[i].out.err
             /\ RunSucceeded(i) =>
                  /\ ret.results[i].Success
                  /\ ret.results[i].Endpoints = unit[i].out.result.Endpoints

\* C4 witness: one probe's Run returned an error, another's succeeded with an
\* endpoint.
C4_Witness ==
    /\ ret.returned
    /\ \E i, j \in DOMAIN ret.results :
         /\ RunErrored(i)
         /\ RunSucceeded(j)
         /\ SliceLen(ret.results[j].Endpoints) > 0

\* C5: every result a probe has put into Discover's output satisfies the
\* ProbeResult invariant: Success=false implies a non-nil Error and no
\* endpoints, Success=true implies a nil Error.
C5_ProbeResultInvariant ==
    ret.returned =>
        \A i \in DOMAIN ret.results :
            written[i] > 0 =>
                /\ ~ret.results[i].Success =>
                     /\ ret.results[i].Error # Nil
                     /\ SliceLen(ret.results[i].Endpoints) = 0
                /\ ret.results[i].Success => ret.results[i].Error = Nil

\* C6: a panic in a probe's Run is recovered in its unit: the process goes
\* on, and the unit's slot holds a failed result with a non-nil Error.
C6_PanicRecovered ==
    \A i \in DOMAIN unit :
        unit[i].out.kind = "panic" =>
            /\ ~crashed
            /\ ~results[i].Success
            /\ results[i].Error # Nil

\* C7: when Discover returns every unit it started has finished and has
\* assigned its slot, and no slot changes after the return.
C7_JoinBarrier ==
    ret.returned =>
        /\ \A i \in DOMAIN unit : unit[i].pc = "done" /\ written[i] = 1
        /\ results = ret.results

\* C8: a probe in flight when the caller cancels ctx ends failed, with the
\* cancellation error in its slot; Discover's own error stays nil.
C8_CancelledInFlightFails ==
    /\ ret.err = Nil
    /\ \A i \in DOMAIN unit :
         (unit[i].pc \in {"stored", "done"} /\ ~unit[i].ctxAtCall /\ unit[i].ctxAtReturn) =>
             /\ ~results[i].Success
             /\ results[i].Error = ErrCanceled

\* ------------------------------------------ claims about DedupeEndpoints

\* DedupeEndpoints has been applied to dInput.
Deduped == dPhase \in {"deduped", "twice"}

\* Position (i2, j2) comes before position (i, j) in iteration order.
Earlier(i2, j2, i, j) == i2 < i \/ (i2 = i /\ j2 < j)

\* Endpoint j of input result i has the key of an endpoint at an earlier
\* position of the input, in any result.
SeenBefore(i, j) ==
    \E i2 \in DOMAIN dInput : \E j2 \in DOMAIN dInput[i2].Endpoints.elems :
        /\ Earlier(i2, j2, i, j)
        /\ endpointKey(dInput[i2].Endpoints.elems[j2]) = endpointKey(dInput[i].Endpoints.elems[j])

\* The same, counting only the endpoints of successful results.
SeenBeforeInSuccessful(i, j) ==
    \E i2 \in DOMAIN dInput : \E j2 \in DOMAIN dInput[i2].Endpoints.elems :
        /\ dInput[i2].Success
        /\ Earlier(i2, j2, i, j)
        /\ endpointKey(dInput[i2].Endpoints.elems[j2]) = endpointKey(dInput[i].Endpoints.elems[j])

\* The endpoints of input result i at the positions of keep, in their
\* original order.
KeptEndpoints(i, keep) ==
    LET eps == dInput[i].Endpoints.elems
        idx == SelectSeq([j \in 1..Len(eps) |-> j], LAMBDA j : j \in keep)
    IN [k \in 1..Len(idx) |-> eps[idx[k]]]

\* The positions of input result i that hold the first occurrence of a key.
FirstOccurrence(i) ==
    {j \in DOMAIN dInput[i].Endpoints.elems : ~SeenBefore(i, j)}

\* The same, counting only the endpoints of successful results.
FirstOccurrenceInSuccessful(i) ==
    {j \in DOMAIN dInput[i].Endpoints.elems : ~SeenBeforeInSuccessful(i, j)}

\* C9: DedupeEndpoints is idempotent: applied to its own output it returns a
\* list equal to that output in length and, result by result, in Success,
\* Error, ProbeCategory and endpoint sequence.
C9_DedupeIdempotent ==
    dPhase = "twice" =>
        /\ Len(dTwice) = Len(dOutput)
        /\ \A i \in DOMAIN dOutput :
             /\ dTwice[i].Success = dOutput[i].Success
             /\ dTwice[i].Error = dOutput[i].Error
             /\ dTwice[i].ProbeCategory = dOutput[i].ProbeCategory
             /\ dTwice[i].Endpoints.elems = dOutput[i].Endpoints.elems

\* C9 witness: the first application removed an endpoint from a list that
\* also holds a failed result, and the second application has run.
C9_Witness ==
    /\ dPhase = "twice"
    /\ TotalEndpoints(dOutput) < TotalEndpoints(dInput)
    /\ \E i \in DOMAIN dInput : ~dInput[i].Success

\* C10 as stated: each output result holds exactly the endpoints of its input
\* result that are the first occurrence of their key in iteration order over
\* all the results, in their original order.
C10_FirstOccurrenceOverAllResults ==
    Deduped =>
        /\ Len(dOutput) = Len(dInput)
        /\ \A i \in DOMAIN dInput :
             dOutput[i].Endpoints.elems = KeptEndpoints(i, FirstOccurrence(i))

\* C10 amended: among the endpoints of successful results the first
\* occurrence of each key in iteration order is kept and every later one is
\* dropped, whichever successful result holds it, the kept endpoints staying
\* in their original order; the endpoints of a failed result are neither
\* counted as occurrences nor dropped.
C10_FirstOccurrenceAmongSuccessful ==
    Deduped =>
        /\ Len(dOutput) = Len(dInput)
        /\ \A i \in DOMAIN dInput :
             IF dInput[i].Success
             THEN dOutput[i].Endpoints.elems = KeptEndpoints(i, FirstOccurrenceInSuccessful(i))
             ELSE dOutput[i].Endpoints = dInput[i].Endpoints

\* C10 witness: a later successful result lost an endpoint whose key an
\* earlier successful result holds, and kept another.
C10_Witness ==
    /\ Deduped
    /\ \E i, k \in DOMAIN dInput :
         /\ i < k
         /\ dInput[i].Success
         /\ dInput[k].Success
         /\ Len(dInput[k].Endpoints.elems) = 2
         /\ Len(dOutput[k].Endpoints.elems) = 1
         /\ \E j \in DOMAIN dInput[i].Endpoints.elems :
              endpointKey(dInput[i].Endpoints.elems[j]) = endpointKey(dInput[k].Endpoints.elems[1])
         /\ dOutput[k].Endpoints.elems[1] = dInput[k].Endpoints.elems[2]

\* The positions (i, j) of the endpoints of the result list rs.
EndpointPositions(rs) ==
    UNION {{<<i, j>> : j \in DOMAIN rs[i].Endpoints.elems} : i \in DOMAIN rs}

\* The key of the endpoint of rs at position pos, written out:
\* method + ":" + lowercase(path).
KeyAt(rs, pos) ==
    LET e == rs[pos[1]].Endpoints.elems[pos[2]]
    IN e.Method \o <<":">> \o ToLower(e.Path)

\* C11 as stated: after DedupeEndpoints no key occurs more than once across
\* the endpoint lists of all the results of the output.
C11_NoKeyTwiceInOutput ==
    Deduped =>
        \A p, q \in EndpointPositions(dOutput) :
            KeyAt(dOutput, p) = KeyAt(dOutput, q) => p = q

\* C11 amended: after DedupeEndpoints no key occurs more than once across
\* the endpoint lists of the successful results of the output, the seen set
\* being one for the whole list; the endpoints of failed results are left as
\* they were and may repeat a key.
C11_NoKeyTwiceInSuccessful ==
    Deduped =>
        \A p, q \in EndpointPositions(dOutput) :
            /\ dOutput[p[1]].Success
            /\ dOutput[q[1]].Success
            /\ KeyAt(dOutput, p) = KeyAt(dOutput, q)
            => p = q

\* C11 witness: two successful results held three endpoints of one key
\* between them, and one endpoint is left.
C11_Witness ==
    /\ Deduped
    /\ Len(dInput) = 2
    /\ \A i \in DOMAIN dInput : dInput[i].Success /\ SliceLen(dInput[i].Endpoints) > 0
    /\ TotalEndpoints(dInput) = 3
    /\ TotalEndpoints(dOutput) = 1

\* Input result i is one DedupeEndpoints passes through.
PassedThrough(i) == ~dInput[i].Success \/ SliceLen(dInput[i].Endpoints) = 0

\* C13: a result with Success=false, or with an empty endpoint list, is in
\* the output as it was in the input, in ProbeCategory, Success, Error and
\* Endpoints (nil or empty as given), wherever it sits in the list.
C13_FailedAndEmptyPassThrough ==
    Deduped =>
        \A i \in DOMAIN dInput :
            PassedThrough(i) =>
                /\ i \in DOMAIN dOutput
                /\ dOutput[i].ProbeCategory = dInput[i].ProbeCategory
                /\ dOutput[i].Success = dInput[i].Success
                /\ dOutput[i].Error = dInput[i].Error
                /\ dOutput[i].Endpoints = dInput[i].Endpoints

\* C13 witness: a failed result with a nil endpoint list comes after a
\* successful result that lost an endpoint.
C13_Witness ==
    /\ Deduped
    /\ Len(dInput) = 2
    /\ dInput[1].Success
    /\ SliceLen(dOutput[1].Endpoints) < SliceLen(dInput[1].Endpoints)
    /\ ~dInput[2].Success
    /\ dInput[2].Endpoints = NilSlice
    /\ dOutput[2] = dInput[2]

\* C14: the output is as long as the input, output result i has the
\* ProbeCategory, Success and Error of input result i and no more endpoints
\* than it, and an empty input gives an empty output.
C14_SameLengthSameHeaders ==
    Deduped =>
        /\ Len(dOutput) = Len(dInput)
        /\ dInput = <<>> => dOutput = <<>>
        /\ \A i \in DOMAIN dInput :
             /\ dOutput[i].ProbeCategory = dInput[i].ProbeCategory
             /\ dOutput[i].Success = dInput[i].Success
             /\ dOutput[i].Error = dInput[i].Error
             /\ SliceLen(dOutput[i].Endpoints) <= SliceLen(dInput[i].Endpoints)

\* C14 witness: a failed result before a successful one of another category
\* that lost an endpoint.
C14_Witness ==
    /\ Deduped
    /\ Len(dInput) = 2
    /\ ~dInput[1].Success
    /\ dInput[2].Success
    /\ dInput[1].ProbeCategory # dInput[2].ProbeCategory
    /\ SliceLen(dOutput[2].Endpoints) < SliceLen(dInput[2].Endpoints)

\* The string s holds the separator ":".
HasColon(s) == \E k \in DOMAIN s : s[k] = ":"

\* DedupeEndpoints has been applied to one successful result of two endpoints.
TwoEndpointsDeduped ==
    /\ dPhase = "deduped"
    /\ Len(dInput) = 1
    /\ dInput[1].Success
    /\ SliceLen(dInput[1].Endpoints) = 2

\* The two endpoints of the one result of dInput.
First == dInput[1].Endpoints.elems[1]

Second == dInput[1].Endpoints.elems[2]

\* DedupeEndpoints took the second endpoint for a duplicate of the first.
SecondDropped == dOutput[1].Endpoints.elems = <<First>>

\* DedupeEndpoints kept both endpoints.
BothKept == dOutput[1].Endpoints.elems = <<First, Second>>

ScanDeduped == ret.returned /\ dPhase \in {"deduped", "findings"}

\* The keys of the endpoints of a result.
KeysOf(result) ==
    {e.Method \o <<":">> \o ToLower(e.Path) :
        e \in {result.Endpoints.elems[j] : j \in DOMAIN result.Endpoints.elems}}

\* Slot a of Discover's results holds no key twice and no key that the slot
\* of a successful result before it holds.
HoldsItsKeysFirst(a) ==
    /\ Cardinality(KeysOf(ret.results[a])) = SliceLen(ret.results[a].Endpoints)
    /\ \A c \in 1..(a - 1) :
         ret.results[c].Success => KeysOf(ret.results[c]) \cap KeysOf(ret.results[a]) = {}

AssetFindingsFor(e) ==
    {k \in DOMAIN findings.elems :
        /\ findings.elems[k].Type = FindingAsset
        /\ findings.elems[k].Data.method = e.Method
        /\ ToLower(findings.elems[k].Data.path) = ToLower(e.Path)}

RegisteredNames == {regLog[k][1] : k \in DOMAIN regLog}

\* The Register calls, by position in regLog, made with name.
RegistrationsOf(name) == {k \in DOMAIN regLog : regLog[k][1] = name}

\* The factory of the last Register call made with name.
LastRegistered(name) ==
    LET last == CHOOSE k \in RegistrationsOf(name) :
                    \A j \in RegistrationsOf(name) : j <= k
    IN regLog[last][2]

\* The elements of a slice.
Range(seq) == {seq[k] : k \in DOMAIN seq}

\* C17: for a name that has been registered, whatever was registered after
\* it under other names, Has(name) is true, List() contains name, and
\* Create(name, cfg) calls the factory registered for it with cfg and
\* returns that factory's value and error.
C17_RegistryRoundTrip ==
    /\ (lastCall.op = "Has" /\ lastCall.name \in RegisteredNames) => lastCall.has
    /\ lastCall.op = "List" => RegisteredNames \subseteq Range(lastCall.list)
    /\ (lastCall.op = "Create" /\ lastCall.name \in RegisteredNames) =>
         LET f == LastRegistered(lastCall.name)
         IN /\ lastCall.invoked = [factory |-> f, cfg |-> lastCall.cfg]
            /\ lastCall.value = CallFactory(f, lastCall.cfg).value
            /\ lastCall.err = CallFactory(f, lastCall.cfg).err

\* C17 witness: a was registered with f1, then b with f2, and Create of a
\* with a configuration returned the product f1 made of it.
C17_Witness ==
    /\ regLog = << << <<"a">>, Factory("f1", Nil) >>, << <<"b">>, Factory("f2", Nil) >> >>
    /\ lastCall.op = "Create"
    /\ lastCall.name = <<"a">>
    /\ lastCall.value = [madeBy |-> "f1", cfg |-> "max_depth"]
    /\ lastCall.err = NoError

\* C18: Create of a name that was never registered returns the zero value
\* and an error that wraps ErrNotFound and names the name and the registry,
\* calls no factory, and leaves the registry holding what was registered.
C18_CreateMiss ==
    (lastCall.op = "Create" /\ lastCall.name \notin RegisteredNames) =>
        /\ lastCall.value = ZeroValue
        /\ lastCall.err.is = ErrNotFound
        /\ lastCall.err.name = lastCall.name
        /\ lastCall.err.registry = RegistryName
        /\ lastCall.invoked = NoInvocation
        /\ DOMAIN factories = RegisteredNames
        /\ \A n \in RegisteredNames : factories[n] = LastRegistered(n)

\* C18 witness: with a and b registered, Create of B has failed.
C18_Witness ==
    /\ RegisteredNames = {<<"a">>, <<"b">>}
    /\ lastCall.op = "Create"
    /\ lastCall.name = <<"B">>
    /\ lastCall.err.is = ErrNotFound

\* C19: List() returns the registered names, each once, in ascending
\* byte-wise lexicographic order, whatever the order of the Register calls.
C19_ListSorted ==
    lastCall.op = "List" =>
        /\ Range(lastCall.list) = RegisteredNames
        /\ Len(lastCall.list) = Cardinality(RegisteredNames)
        /\ \A k \in 1..(Len(lastCall.list) - 1) :
             StringLess(lastCall.list[k], lastCall.list[k + 1])

\* C19 witness: b, ab and B were registered in that order and List()
\* returned B, ab, b.
C19_Witness ==
    /\ Len(regLog) = 3
    /\ regLog[1][1] = <<"b">>
    /\ regLog[2][1] = <<"a", "b">>
    /\ regLog[3][1] = <<"B">>
    /\ lastCall.op = "List"
    /\ lastCall.list = << <<"B">>, <<"a", "b">>, <<"b">> >>

\* C20: after a name has been registered again with another factory, Create
\* of the name calls the factory registered last and none registered before
\* it, and Register returns no error.
C20_LastWriterWins ==
    /\ lastCall.op = "Register" => lastCall.err = NoError
    /\ lastCall.op = "Create" =>
         \A j, k \in RegistrationsOf(lastCall.name) :
             (j < k /\ regLog[j][2] # regLog[k][2]
                    /\ \A l \in RegistrationsOf(lastCall.name) : l <= k)
             => /\ lastCall.invoked.factory = regLog[k][2]
                /\ lastCall.invoked.factory # regLog[j][2]

\* C20 witness: a was registered with f1 and again with f2, and Create of a
\* returned the product of f2.
C20_Witness ==
    /\ regLog = << << <<"a">>, Factory("f1", Nil) >>, << <<"a">>, Factory("f2", Nil) >> >>
    /\ lastCall.op = "Create"
    /\ lastCall.name = <<"a">>
    /\ lastCall.value.madeBy = "f2"

\* C21: after any sequence of Register calls on a new registry, Count() is
\* the number of distinct names registered so far and the length of List():
\* 0 on the new registry, one more after a new name, the same after an
\* existing name is registered again.
C21_CountIsDistinctNames ==
    /\ RegistryCount(factories) = Cardinality(RegisteredNames)
    /\ RegistryCount(factories) = Len(RegistryList(factories))
    /\ regLog = <<>> => RegistryCount(factories) = 0
    /\ lastCall.op = "Count" => lastCall.count = Cardinality(RegisteredNames)

\* C21 witness: a was registered twice and b once, and Count() returned 2.
C21_Witness ==
    /\ Len(regLog) = 3
    /\ Cardinality(RegisteredNames) = 2
    /\ lastCall.op = "Count"
    /\ lastCall.count = 2

\* ------------------------------------- claims about what Discover stores

\* Unit i has assigned its slot.
HasStored(i) == unit[i].pc \in {"stored", "done"}

FindingsMade == dPhase = "findings" /\ ~ret.returned

\* The number of findings result i is to yield.
FindingsOf(i) ==
    IF dInput[i].Success THEN SliceLen(dInput[i].Endpoints)
    ELSE IF dInput[i].Error # Nil THEN 1
    ELSE 0

\* The number of findings the results before result i are to yield.
RECURSIVE FindingsBefore(_)
FindingsBefore(i) ==
    IF i <= 1 THEN 0 ELSE FindingsBefore(i - 1) + FindingsOf(i - 1)

ErrorFindings ==
    {k \in DOMAIN findings.elems :
        /\ findings.elems[k].Type = FindingAttribute
        /\ findings.elems[k].Data.type = "probe_error"}

\* The results, by position, given to ToFindings with Success=false.
FailedResults == {i \in DOMAIN dOutput : ~dOutput[i].Success}

\* C24: every failed probe is reported: after Discover, DedupeEndpoints and
\* ToFindings the findings hold an error finding (type attribute, data type
\* probe_error) for each result with Success=false, of its probe_category.
C24_EveryFailedProbeReported ==
    (ret.returned /\ dPhase = "findings") =>
        /\ Cardinality(ErrorFindings) = Cardinality(FailedResults)
        /\ \A i \in FailedResults :
             \E k \in ErrorFindings :
                 findings.elems[k].Data.probe_category = dOutput[i].ProbeCategory

\* ------------------------------- claims about the registry's goroutines

\* C22: under any interleaving of concurrent Register, Create, List, Has and
\* Count calls, a goroutine about to write the factories map, or past the
\* write and before Unlock, is the one that holds the exclusive lock, and no
\* reader and no other writer is inside the lock with it; a reader waiting
\* in RLock is let in whenever no writer holds or awaits the lock, whatever
\* readers are inside.
C22_WritesExclusiveReadsShared ==
    /\ \A p \in WritersInside :
         /\ rw.writer = p
         /\ ReadersInside = {}
         /\ WritersInside = {p}
    /\ rw.readers = ReadersInside
    /\ \A p \in DOMAIN rw.proc :
         (rw.proc[p].pc = "RLock" /\ rw.writer = 0) => CanRLock(rw.writer, rw.readers)

\* C22 witness: Create and Has are inside the read lock together while a
\* Register waits in Lock for them to leave.
C22_Witness ==
    \E p, q, w \in DOMAIN rw.proc :
        /\ p # q
        /\ rw.proc[p].op = "Create" /\ rw.proc[p].pc = "RUnlock"
        /\ rw.proc[q].op = "Has" /\ rw.proc[q].pc = "read"
        /\ rw.proc[w].op = "Register" /\ rw.proc[w].pc = "LockWait"
        /\ factories # <<>>

\* ------------------------------ claims about factories that call back

\* The Create calls goroutine p is in: the one it runs and, when that one was
\* made by a factory, the Create that invoked the factory.
CreateFrames(p) ==
    {fr \in {rw.proc[p]} \cup {rw.proc[p].outer[k] : k \in DOMAIN rw.proc[p].outer} :
        fr.op = "Create"}

\* C37: Create has released the read lock when it invokes the factory: a
\* goroutine holds the lock only between acquiring it and the release that
\* follows without waiting, so a goroutine inside a factory, or in a call the
\* factory makes on the registry, holds nothing a Register or another call
\* waits for; and the factory invoked is the one the map held under the name
\* when Create looked it up.
C37_FactoryRunsOutsideLock ==
    /\ \A p \in rw.readers : rw.proc[p].pc \in {"read", "RUnlock"}
    /\ rw.writer # 0 => rw.proc[rw.writer].pc \in {"LockWait", "write", "Unlock"}
    /\ \A p \in DOMAIN rw.proc :
         \A fr \in CreateFrames(p) :
             fr.pc = "running" => fr.invoked = fr.seen[fr.name]

\* C37 witness: while the factory f1 that goroutine 1 looked up is running,
\* goroutine 2 has registered f2 under the same name and is about to return,
\* and the factory's own call of Has waits for it in RLock.
C37_Witness ==
    /\ rw.proc[1].outer # <<>>
    /\ rw.proc[1].op = "Has"
    /\ rw.proc[1].pc = "RLock"
    /\ rw.proc[1].outer[1].pc = "running"
    /\ rw.proc[1].outer[1].invoked = Factory("f1", Nil)
    /\ rw.proc[2].op = "Register"
    /\ rw.proc[2].pc = "Unlock"
    /\ factories[<<"a">>] = Factory("f2", Nil)

\* ------------------------------------------------ claims about Client.Get

\* Attempt n of the call sent a request that ended in a 5xx status or in a
\* transport error.
AttemptFailed(n) ==
    \/ get.trace[n].do = "error"
    \/ get.trace[n].do = "response" /\ get.trace[n].read /\ get.trace[n].status >= 500

\* Attempt n of the call yielded a response that is not a 5xx.
AttemptSucceeded(n) ==
    get.trace[n].do = "response" /\ get.trace[n].read /\ get.trace[n].status < 500

\* C28: Get sends at most MaxRetries requests; when the first k attempts,
\* k < MaxRetries, end in a 5xx status or a transport error and attempt k+1
\* yields a response that is not a 5xx, Get returns that response and a nil
\* error, having sent exactly k+1 requests.
C28_BoundedRetries ==
    /\ get.sent <= get.maxRetries
    /\ \A k \in 0..(get.maxRetries - 1) :
         (/\ Len(get.trace) >= k + 1
          /\ \A n \in 1..k : AttemptFailed(n)
          /\ AttemptSucceeded(k + 1)) =>
              /\ get.pc = "returned"
              /\ get.resp = [isNil |-> FALSE, StatusCode |-> get.trace[k + 1].status]
              /\ get.err = [prefix |-> "", cause |-> Nil]
              /\ get.sent = k + 1
              /\ Len(get.trace) = k + 1

\* C28 witness: with MaxRetries 3 the first attempt met a 500, the second a
\* transport error and the third a 200, which Get returned.
C28_Witness ==
    /\ get.pc = "returned"
    /\ get.maxRetries = 3
    /\ Len(get.trace) = 3
    /\ get.trace[1].status = 500
    /\ get.trace[2].do = "error"
    /\ get.resp = [isNil |-> FALSE, StatusCode |-> 200]
    /\ get.sent = 3

\* The last iteration of the call found the context cancelled.
FoundCancelled ==
    get.trace # <<>> /\ get.trace[Len(get.trace)].do = "canceled"

\* C29: when the context is cancelled as an attempt of Get is about to
\* start, the first or a retry, Get sends no request in that attempt and
\* none after it, and returns a nil response and an error whose message
\* contains "context canceled".
C29_CancelledBeforeAttempt ==
    /\ (get.pc = "loop" /\ ctxDone /\ get.attempt < get.maxRetries) =>
         \A ev \in GetEvents :
             LET after == GetStep(get, ev, ctxDone)
             IN /\ after.pc = "returned"
                /\ after.sent = get.sent
                /\ after.resp.isNil
                /\ "context canceled" \in {after.err.prefix, after.err.cause}
    /\ FoundCancelled =>
         /\ get.pc = "returned"
         /\ get.sent = Len(get.trace) - 1
         /\ get.resp.isNil
         /\ "context canceled" \in {get.err.prefix, get.err.cause}

\* C29 witness: two attempts failed, the context was cancelled before the
\* third, and Get returned the context error after two requests.
C29_Witness ==
    /\ FoundCancelled
    /\ get.maxRetries = 3
    /\ Len(get.trace) = 3
    /\ get.sent = 2
    /\ get.err.prefix = "context canceled"

\* ------------------------------------------- claims about Crawler.Crawl

\* No element of the list occurs twice in it.
NoRepeat(list) ==
    \A i, j \in DOMAIN list : list[i] = list[j] => i = j

\* The URLs in the queue.
Queued == {crawl.queue[k].url : k \in DOMAIN crawl.queue}

\* The links found in a page that was fetched; none are known of the others.
LinksOf(u) ==
    IF u \in DOMAIN crawl.links
    THEN {crawl.links[u][k] : k \in DOMAIN crawl.links[u]}
    ELSE {}

\* The URLs at link distance k or less from the start URL.
RECURSIVE Within(_)
Within(k) ==
    IF k = 0 THEN {StartURL}
    ELSE LET near == Within(k - 1)
         IN near \cup UNION {LinksOf(u) : u \in near}

\* C25: in one Crawl a URL is marked visited when it is put in the queue;
\* no URL is put in the queue twice or fetched twice, and none is twice in
\* the list returned, also when several queued pages link to one target.
C25_VisitedWhenEnqueued ==
    crawl.pc \in {"loop", "returned"} =>
        /\ Queued \subseteq crawl.visited
        /\ crawl.visited = {crawl.enqueued[k] : k \in DOMAIN crawl.enqueued}
        /\ NoRepeat(crawl.enqueued)
        /\ NoRepeat(crawl.fetched)
        /\ NoRepeat(crawl.endpoints)

\* C25 witness: the start page links to a and b, both were in the queue and
\* both link to c, and the crawl returned each of the four pages once.
C25_Witness ==
    /\ crawl.pc = "returned"
    /\ crawl.endpoints = <<"s", "a", "b", "c">>
    /\ "c" \in LinksOf("a")
    /\ "c" \in LinksOf("b")

\* C26: Crawl fetches no URL whose link distance from the start URL is
\* MaxDepth or more, and every URL it returns is at a distance below
\* MaxDepth, cycles or not.
C26_DepthBelowMaxDepth ==
    LET fetched == {crawl.fetched[k] : k \in DOMAIN crawl.fetched}
        returned == {crawl.endpoints[k] : k \in DOMAIN crawl.endpoints}
    IN /\ crawl.MaxDepth <= 0 => fetched = {}
       /\ crawl.MaxDepth > 0 => fetched \subseteq Within(crawl.MaxDepth - 1)
       /\ returned \subseteq fetched

\* C26 witness: with MaxDepth 2 on a site that links s to a, a to c and c
\* back to s, Crawl returned s and a and left c, at distance 2, unfetched.
C26_Witness ==
    /\ crawl.pc = "returned"
    /\ crawl.MaxDepth = 2
    /\ crawl.endpoints = <<"s", "a">>
    /\ crawl.links["a"] = <<"s", "c">>
    /\ crawl.err = Nil
    /\ "c" \in crawl.visited

\* C27: during one Crawl with MaxPages = N no more than N HTTP requests are
\* sent to the target, whatever the links and whichever fetches fail.
C27_RequestsWithinMaxPages ==
    crawl.requests <= crawl.MaxPages

\* --------------------------------- claims about the units of Discover

\* C31: during Discover every unit that was started assigns the result list
\* once, at its own index and at no other, so that no index is assigned by
\* two units: no slot is assigned twice or by a unit other than its own,
\* and a unit that has ended has assigned its slot.
C31_EachUnitWritesItsSlotOnce ==
    /\ \A k \in DOMAIN written :
         /\ written[k] <= 1
         /\ writer[k] \in {0, k}
    /\ \A i \in DOMAIN unit :
         unit[i].pc \in {"done", "unwound"} => written[i] = 1 /\ writer[i] = i

\* The Run of some unit never returns: it waits on a server that never
\* answers.
SomeRunBlocked == \E i \in DOMAIN unit : unit[i].pc = "blocked"

\* C32: Discover returns exactly when the Run of every accepted probe has
\* ended: under fair scheduling Discover returns in the end unless some Run
\* blocks for ever, and while a Run is blocked Discover has not returned,
\* there being no deadline in Discover itself.
C32_ReturnsIffRunsReturn ==
    /\ <>(ret.returned \/ SomeRunBlocked)
    /\ [](SomeRunBlocked => ~ret.returned)

\* C32, the blocked case: one unit has ended, the Run of the other is blocked, and
\* Discover waits in wg.Wait().
C32_Witness ==
    /\ dpc = "dispatch"
    /\ spawned = 2
    /\ unit[1].pc = "done"
    /\ unit[2].pc = "blocked"
    /\ wg = 1
    /\ ~ret.returned

\* Where the probe p stands in the list ps of distinct probes.
IndexIn(p, ps) == CHOOSE k \in 1..Len(ps) : ps[k] = p

\* C33: two accepted probes of equal Priority stand, in the list Discover
\* works on and so in its results, in the order they have in the probe list
\* given to NewOrchestrator.
C33_TiesKeepListOrder ==
    \A i, j \in DOMAIN accepting :
        (i < j /\ Priority(accepting[i]) = Priority(accepting[j]))
            => IndexIn(accepting[i], probes) < IndexIn(accepting[j], probes)

\* C34: DedupeEndpoints works in place: after the call the slice the caller
\* passed holds the deduplicated endpoint lists, those of the returned list.
C34_InputDedupedInPlace ==
    dPhase \in {"deduped", "twice"} => dInput = dOutput

\* C35: Discover leaves the Orchestrator's probe list as NewOrchestrator got
\* it, and of two Discover calls running at once each works on a sorted and
\* filtered copy of that list for its own target and on a results slice of
\* its own, which no unit of the other call assigns: what a call returns is
\* what its own units stored.
C35_CallsShareNothing ==
    /\ probes = calls.given
    /\ \A c \in Callers :
         LET k == calls.call[c]
         IN /\ k.pc # "idle" => k.sorted \in sortProbesByPriority(calls.given)
            /\ k.pc \in {"dispatch", "returned"} =>
                 /\ k.accepting = FilterAccepting(k.sorted, k.target)
                 /\ \A d \in Callers \ {c} : calls.call[d].slice # k.slice
                 /\ \A i \in DOMAIN calls.heap[k.slice] :
                      calls.heap[k.slice][i].by \subseteq {c}
            /\ k.pc = "returned" => k.ret.results = k.stored

\* C35 witness: two calls for different targets are both in their dispatch
\* loop with a slot assigned each, and one of them then returns a list the
\* other does not.
C35_Witness ==
    /\ calls.call[1].pc = "returned"
    /\ calls.call[2].pc = "dispatch"
    /\ calls.call[1].target # calls.call[2].target
    /\ Len(calls.call[1].accepting) = 2
    /\ Len(calls.call[2].accepting) = 1
    /\ calls.call[2].pending = {}
    /\ calls.call[1].slice = 2
    /\ calls.call[1].ret.results[1].Success
    /\ calls.call[1].accepting[1] # calls.call[2].accepting[1]

\* C36: when the Run of an accepted probe returns a nil result with a nil
\* error, its unit does not panic, the process goes on, and Discover returns
\* with that unit's slot assigned and a nil error.
C36_NilResultReturnsNormally ==
    \A i \in DOMAIN unit :
        (unit[i].out.kind = "ret" /\ unit[i].out.nilResult /\ unit[i].out.err = Nil) =>
            /\ ~crashed
            /\ unit[i].pc \in {"stored", "done"}
            /\ written[i] = 1
            /\ ret.err = Nil

\* ------------------------------------ claims about a crawler used again

\* A Crawl call in which every page asked for was fetched and the context
\* was not cancelled: fetched and err are those of the call.
CleanCrawl(fetched, endpoints, err) == err = Nil /\ fetched = endpoints

\* C38: a second Crawl on the same Crawler, from the same start URL on the
\* same site, returns the list the first returned, both calls having fetched
\* every page they asked for.
C38_SecondCrawlSameList ==
    (/\ crawl.pc = "returned"
     /\ crawl.first # <<>>
     /\ CleanCrawl(crawl.first[1].fetched, crawl.first[1].endpoints, crawl.first[1].err)
     /\ CleanCrawl(crawl.fetched, crawl.endpoints, crawl.err))
        => crawl.endpoints = crawl.first[1].endpoints

\* C39: every read and every write of the crawler's visited set, made by
\* Crawl calls running at once and by IsVisited and VisitedCount, is made by
\* a goroutine that holds the crawler's mutex, and no access stops the
\* process.
C39_VisitedOnlyUnderMutex ==
    /\ \A a \in crawlers.accesses : a.held
    /\ ~crawlers.fatal

\* ------------------------------------ claims about what Get hands back

\* C40: whatever MaxRetries is and whatever the requests meet, Get returns
\* either a response and a nil error or a nil response and an error, never a
\* nil response with a nil error.
C40_ResponseOrError ==
    get.pc = "returned" => (get.resp.isNil <=> get.err # GetError("", Nil))

====
